---- MODULE Spec2Model ----
(***************************************************************************)
(* Model of src/dex/balancer-v2/balancer-v2.ts: the event-driven pool      *)
(* state synchronizer (BalancerV2EventPool) and the quote engine           *)
(* (BalancerV2).                                                           *)
(*                                                                         *)
(* Pool states are JavaScript objects: processLog receives references and  *)
(* the handlers mutate objects in place.  The model therefore keeps a heap *)
(* of pool-state objects; a snapshot (PoolStateMap) maps a pool address to *)
(* a reference into that heap.                                             *)
(***************************************************************************)
EXTENDS Integers, Sequences, FiniteSets, TLC

VARIABLES
    heap,       \* sequence of pool-state objects; a reference is an index
    state,      \* StatefulEventSubscriber.state: pool address -> reference
    lastCall,   \* record of the last processLog call (input, output, heaps)
    initial,    \* balances of the first snapshot, pool -> token -> balance
    moved,      \* sum of the amounts of the applied events, pool -> token
    nLogs,      \* number of logs delivered so far
    stateBlockNumber,        \* StatefulEventSubscriber: block of `state`
    eventDisabledPools,      \* BalancerV2.eventDisabledPools
    nonEventPoolStateCache,  \* BalancerV2.nonEventPoolStateCache
    quotes,     \* the getPricesVolume calls: position and local variables
    nQuotes,    \* number of getPricesVolume calls started so far
    call,       \* the last call of a function checked on its own
    pricing,    \* BalancerV2's refresh timer and its initializePricing calls
    eventPools  \* BalancerV2EventPool.allPools and .virtualBoostedPools

syncVars == <<heap, state, lastCall, initial, moved, nLogs>>
quoteVars == <<eventDisabledPools, nonEventPoolStateCache, quotes, nQuotes>>
vars == <<syncVars, stateBlockNumber, quoteVars, call, pricing, eventPools>>

----------------------------------------------------------------------------
(* Bounds *)

MaxAmount == 2        \* the largest amount an event reports
MaxLogs == 2          \* logs delivered in one behaviour
MaxBlock == 2         \* block numbers range over 1..MaxBlock
MaxQuotes == 2        \* getPricesVolume calls started in one behaviour
MaxRacingQuotes == 3  \* getPricesVolume calls in a behaviour of SpecCacheRace
MaxSwaps == 2         \* swaps in the data handed to getBalancerParam
MaxInits == 2         \* initializePricing calls made in one behaviour

----------------------------------------------------------------------------
(* Addresses.  Token addresses arrive in events in checksum (mixed) case,  *)
(* written here in upper case; the keys of a pool state are lower case.    *)

toLowerCase(s) ==
    CASE s = "A" -> "a"
      [] s = "B" -> "b"
      [] s = "C" -> "c"
      [] s = "P1" -> "p1"
      [] s = "P2" -> "p2"
      [] s = "PX" -> "px"
      [] s = "X" -> "x"
      [] s = "Y" -> "y"
      [] s = "L1" -> "l1"
      [] s = "L2" -> "l2"
      [] s = "0xEeeE" -> "0xeeee"
      [] s = "VirtualBoosted" -> "virtualboosted"
      [] s = "StablePhantom" -> "stablephantom"
      [] s = "AaveLinear" -> "aavelinear"
      [] s = "MetaStable" -> "metastable"
      [] s = "Weighted" -> "weighted"
      [] s = "Stable" -> "stable"
      [] OTHER -> s

\* The order in which Object.entries lists the pools of a snapshot.
AddressOrder == <<"p1", "p2", "p3", "p4">>

\* JavaScript's undefined, as the value of a missing reference.
Undefined == 0

\* obj[key] in JavaScript: undefined when the key is absent.
Get(map, key) == IF key \in DOMAIN map THEN map[key] ELSE Undefined

\* The elements of an array.
Range(xs) == { xs[i] : i \in 1..Len(xs) }

\* The pool states a snapshot refers to, as values.
Deref(h, snapshot) == [a \in DOMAIN snapshot |-> h[snapshot[a]]]

----------------------------------------------------------------------------
(* Logs of the Vault.  topic selects the event fragment; a log whose topic *)
(* matches no fragment of the Vault ABI makes parseLog throw.              *)

EventTokens == {"A", "B", "C"}
PoolIds == {<<"p1", "0001">>, <<"p2", "0002">>, <<"px", "0003">>}
Amounts == {1, MaxAmount}

SwapLogs ==
    { [topic |-> "Swap", poolId |-> p, tokenIn |-> ti, tokenOut |-> to,
       amountIn |-> ai, amountOut |-> ao] :
        p \in PoolIds, ti \in EventTokens, to \in EventTokens,
        ai \in Amounts, ao \in Amounts }

\* The Vault rejects a swap of a token for itself, so no such log exists.
VaultSwapLogs == { l \in SwapLogs : l.tokenIn # l.tokenOut }

TokenLists == {<<"A", "B">>, <<"A", "C">>, <<"B">>}
DeltaLists == {<<>>, <<MaxAmount>>, <<0 - MaxAmount>>,
               <<MaxAmount, MaxAmount>>, <<0 - MaxAmount, MaxAmount>>}
FeeLists == {<<0>>, <<1>>, <<0, 0>>, <<1, 0>>}

\* One delta and one fee per listed token; a deltas list one shorter than
\* the token list stands for a malformed field.
BalanceChangedArgs ==
    { a \in [tokens : TokenLists, deltas : DeltaLists,
             protocolFeeAmounts : FeeLists] :
        /\ Len(a.protocolFeeAmounts) = Len(a.tokens)
        /\ Len(a.deltas) \in {Len(a.tokens), Len(a.tokens) - 1} }

PoolBalanceChangedLogs ==
    { [topic |-> "PoolBalanceChanged", poolId |-> p, tokens |-> a.tokens,
       deltas |-> a.deltas, protocolFeeAmounts |-> a.protocolFeeAmounts] :
        p \in PoolIds, a \in BalanceChangedArgs }

OtherLogs ==
    { [topic |-> "PoolRegistered", poolId |-> p] : p \in PoolIds }

UndecodableLogs == { [topic |-> "unknown"] }

Logs == VaultSwapLogs \cup PoolBalanceChangedLogs \cup OtherLogs
            \cup UndecodableLogs

----------------------------------------------------------------------------
(* Outcomes of a call: a normal return or a thrown exception.              *)

HandlerReturn(h, ref) == [threw |-> FALSE, heap |-> h, ref |-> ref]
HandlerThrow(h) == [threw |-> TRUE, heap |-> h, ref |-> Undefined]

\* pool.tokens[t] exists on the object behind ref.
HasToken(h, ref, t) ==
    /\ ref \in DOMAIN h
    /\ t \in DOMAIN h[ref].tokens

\* pool.tokens[t].balance += n
AddBalance(h, ref, t, n) ==
    [h EXCEPT ![ref].tokens[t].balance = @ + n]

handleSwapAddsOut(h, event, ref) ==
    LET tokenIn == toLowerCase(event.tokenIn)
        tokenOut == toLowerCase(event.tokenOut)
    IN  IF ~HasToken(h, ref, tokenIn) THEN HandlerThrow(h)
        ELSE LET h1 == AddBalance(h, ref, tokenIn, event.amountIn)
             IN  IF ~HasToken(h1, ref, tokenOut) THEN HandlerThrow(h1)
                 ELSE HandlerReturn(
                        AddBalance(h1, ref, tokenOut, event.amountOut), ref)

handleSwap(h, event, ref) ==
    LET tokenIn == toLowerCase(event.tokenIn)
        tokenOut == toLowerCase(event.tokenOut)
    IN  IF ~HasToken(h, ref, tokenIn) THEN HandlerThrow(h)
        ELSE LET h1 == AddBalance(h, ref, tokenIn, event.amountIn)
             IN  IF ~HasToken(h1, ref, tokenOut) THEN HandlerThrow(h1)
                 ELSE HandlerReturn(
                        AddBalance(h1, ref, tokenOut, 0 - event.amountOut), ref)

\* const diff = deltas[i] - fees[i];
DiffIgnoringFee(event, i) == event.deltas[i]

Diff(event, i) == event.deltas[i] - event.protocolFeeAmounts[i]

\* One iteration of tokens.forEach: deltas[i] - fees[i] throws a TypeError
\* when either is undefined, pool.tokens[t].balance when t is no token of
\* the pool; the iterations before it have already changed the object.
RECURSIVE BalanceChangedFrom(_, _, _, _)
BalanceChangedFrom(h, event, ref, i) ==
    IF i > Len(event.tokens) THEN HandlerReturn(h, ref)
    ELSE LET t == toLowerCase(event.tokens[i])
         IN  IF \/ i > Len(event.deltas)
                \/ i > Len(event.protocolFeeAmounts)
                \/ ~HasToken(h, ref, t)
             THEN HandlerThrow(h)
             ELSE BalanceChangedFrom(
                    AddBalance(h, ref, t, Diff(event, i)), event, ref, i + 1)

handlePoolBalanceChanged(h, event, ref) == BalanceChangedFrom(h, event, ref, 1)

----------------------------------------------------------------------------
(* processLog *)

typecastWithoutClone(h, ref) == [heap |-> h, ref |-> ref]

\* _.cloneDeep(pool): a new object with the same content.
typecastReadOnlyPoolState(h, ref) ==
    [heap |-> Append(h, h[ref]), ref |-> Len(h) + 1]

\* The addresses of a snapshot in Object.entries order.
Entries(snapshot) == SelectSeq(AddressOrder, LAMBDA a : a \in DOMAIN snapshot)

\* for (const [address, pool] of Object.entries(state))
\*   _state[address] = typecastReadOnlyPoolState(pool);
RECURSIVE CloneEntries(_, _, _, _)
CloneEntries(h, snapshot, addrs, acc) ==
    IF addrs = <<>> THEN [heap |-> h, map |-> acc]
    ELSE LET c == typecastReadOnlyPoolState(h, snapshot[Head(addrs)])
         IN  CloneEntries(c.heap, snapshot, Tail(addrs),
                          (Head(addrs) :> c.ref) @@ acc)

\* The event fragments of the Vault ABI that the model delivers.
VaultEventNames == {"Swap", "PoolBalanceChanged", "PoolRegistered"}

\* this.vaultInterface.parseLog(log): throws when no fragment matches.
vaultDecoder(log) ==
    IF log.topic \in VaultEventNames
    THEN [threw |-> FALSE, name |-> log.topic, args |-> log]
    ELSE [threw |-> TRUE, name |-> "", args |-> log]

\* The keys of this.handlers.
handlers == {"Swap", "PoolBalanceChanged"}

\* this.handlers[event.name](event, pool, log)
CallHandler(name, h, args, ref) ==
    IF name = "Swap" THEN handleSwap(h, args, ref)
    ELSE handlePoolBalanceChanged(h, args, ref)

\* event.args.poolId.slice(0, 42).toLowerCase()
PoolAddressOf(args) == toLowerCase(args.poolId[1])

IsTrackedAlways(_state, poolAddress) == TRUE

\* poolAddress in _state
IsTracked(_state, poolAddress) == poolAddress \in DOMAIN _state

\* return _state;
ProcessLogReturn(h, _state) ==
    [outcome |-> "return", null |-> FALSE, state |-> _state, heap |-> h]

ProcessLogCatchKeepsState(h, _state) ==
    [outcome |-> "return", null |-> FALSE, state |-> _state, heap |-> h]

ProcessLogCatchRethrows(h, _state) ==
    [outcome |-> "throw", null |-> TRUE, state |-> <<>>, heap |-> h]

\* catch (e) { this.logger.error(...); return null; }
ProcessLogCatch(h, _state) ==
    [outcome |-> "return", null |-> TRUE, state |-> <<>>, heap |-> h]

processLog(h, snapshot, log) ==
    LET cloned == CloneEntries(h, snapshot, Entries(snapshot), <<>>)
        _state == cloned.map
        event == vaultDecoder(log)
    IN  IF event.threw THEN ProcessLogCatch(cloned.heap, _state)
        ELSE IF event.name \in handlers
        THEN LET poolAddress == PoolAddressOf(event.args)
             IN  IF IsTracked(_state, poolAddress)
                 THEN LET r == CallHandler(event.name, cloned.heap, event.args,
                                           Get(_state, poolAddress))
                      IN  IF r.threw THEN ProcessLogCatch(r.heap, _state)
                          ELSE ProcessLogReturn(r.heap,
                                   (poolAddress :> r.ref) @@ _state)
                 ELSE ProcessLogReturn(cloned.heap, _state)
        ELSE ProcessLogReturn(cloned.heap, _state)

----------------------------------------------------------------------------
(* The amounts an event itself reports for a token (lower case) of its     *)
(* pool: the yardstick the recorded balances are compared with.            *)

RECURSIVE SumDiffs(_, _, _)
SumDiffs(log, t, i) ==
    IF i > Len(log.tokens) THEN 0
    ELSE (IF /\ toLowerCase(log.tokens[i]) = t
             /\ i \in DOMAIN log.deltas
             /\ i \in DOMAIN log.protocolFeeAmounts
          THEN log.deltas[i] - log.protocolFeeAmounts[i]
          ELSE 0) + SumDiffs(log, t, i + 1)

EventAmount(log, t) ==
    IF log.topic = "Swap"
    THEN (IF toLowerCase(log.tokenIn) = t THEN log.amountIn ELSE 0)
         - (IF toLowerCase(log.tokenOut) = t THEN log.amountOut ELSE 0)
    ELSE IF log.topic = "PoolBalanceChanged" THEN SumDiffs(log, t, 1)
    ELSE 0

\* The pool a log addresses, "" when the log names none.
LogPool(log) ==
    IF log.topic \in VaultEventNames THEN toLowerCase(log.poolId[1]) ELSE ""

----------------------------------------------------------------------------
(* StatefulEventSubscriber: one log is handed to processLog with the       *)
(* current snapshot; a non-null result becomes the current snapshot, null  *)
(* leaves the current snapshot in place.  Objects no snapshot refers to    *)
(* any more are reclaimed.                                                 *)

Compact(h, snapshot) ==
    LET addrs == Entries(snapshot)
    IN  [heap |-> [i \in 1..Len(addrs) |-> h[snapshot[addrs[i]]]],
         map |-> [a \in DOMAIN snapshot |->
                    CHOOSE i \in 1..Len(addrs) : addrs[i] = a]]

ApplyLog(log) ==
    /\ nLogs < MaxLogs
    /\ LET r == processLog(heap, state, log)
           applied == r.outcome = "return" /\ ~r.null
           next == IF applied THEN r.state ELSE state
           kept == Compact(r.heap, next)
       IN  /\ heap' = kept.heap
           /\ state' = kept.map
           /\ lastCall' = [log |-> log, input |-> state, heapBefore |-> heap,
                           outcome |-> r.outcome, null |-> r.null,
                           output |-> r.state, heapAfter |-> r.heap,
                           prevNull |-> lastCall.null,
                           prevInput |-> IF lastCall.null
                                         THEN Deref(lastCall.heapBefore,
                                                    lastCall.input)
                                         ELSE <<>>]
           /\ moved' = [p \in DOMAIN moved |-> [t \in DOMAIN moved[p] |->
                          moved[p][t] + (IF applied /\ LogPool(log) = p
                                         THEN EventAmount(log, t) ELSE 0)]]
    /\ nLogs' = nLogs + 1
    /\ UNCHANGED initial

\* A log of the block the current snapshot belongs to.
Update(log) ==
    /\ ApplyLog(log)
    /\ UNCHANGED <<stateBlockNumber, quoteVars, call, pricing, eventPools>>

----------------------------------------------------------------------------
(* The chain.  The state of a pool at a block is what the read calls of    *)
(* getOnChainState return for that block; it differs from block to block.  *)

Blocks == 1..MaxBlock

PoolStateOf(balances) ==
    [swapFee |-> 1,
     tokens |-> [t \in DOMAIN balances |-> [balance |-> balances[t]]]]

ChainBalances(address, h) ==
    CASE address = "p1" -> [a |-> h, b |-> MaxAmount + h - 1]
      [] address = "p2" -> [a |-> MaxAmount + h - 1, b |-> MaxAmount + h - 1,
                            c |-> h]
      [] address = "p5" -> [x |-> MaxAmount + h, y |-> MaxAmount + h,
                            a |-> MaxAmount + h, b |-> h]
      [] OTHER -> [a |-> MaxAmount + h, b |-> h]

OnChainState(address, h) == PoolStateOf(ChainBalances(address, h))

NoCall ==
    [log |-> [topic |-> "none"], input |-> <<>>, heapBefore |-> <<>>,
     outcome |-> "return", null |-> FALSE, output |-> <<>>, heapAfter |-> <<>>,
     prevNull |-> FALSE, prevInput |-> <<>>]

\* The pools the subgraph lists, highest liquidity first.  p1 and p2 are of
\* event-supported types; p3 is not.  p5 is a phantom-stable hub over the
\* pool tokens of the linear pools l1 (X and its wrapper) and l2 (Y and its
\* wrapper).
subgraphPools ==
    << [id |-> "p3-0003", address |-> "p3", poolType |-> "MetaStable",
        tokens |-> <<[address |-> "a", decimals |-> 0],
                     [address |-> "b", decimals |-> 0]>>],
       [id |-> "p1-0001", address |-> "p1", poolType |-> "Weighted",
        tokens |-> <<[address |-> "a", decimals |-> 0],
                     [address |-> "b", decimals |-> 0]>>],
       [id |-> "p2-0002", address |-> "p2", poolType |-> "Stable",
        tokens |-> <<[address |-> "a", decimals |-> 0],
                     [address |-> "b", decimals |-> 0],
                     [address |-> "c", decimals |-> 0]>>],
       [id |-> "p5-0005", address |-> "p5", poolType |-> "StablePhantom",
        tokens |-> <<[address |-> "l1", decimals |-> 0],
                     [address |-> "l2", decimals |-> 0]>>],
       [id |-> "l1-0006", address |-> "l1", poolType |-> "AaveLinear",
        tokens |-> <<[address |-> "x", decimals |-> 0],
                     [address |-> "wx", decimals |-> 0]>>],
       [id |-> "l2-0007", address |-> "l2", poolType |-> "AaveLinear",
        tokens |-> <<[address |-> "y", decimals |-> 0],
                     [address |-> "wy", decimals |-> 0]>>] >>

\* VirtualBoostedPool.createPools(subgraphPools).dictionary: one boosted
\* group, keyed by the id of its hub, with the linear pool of each main token.
virtualBoostedPools ==
    "p5-0005" :>
        [mainTokens |-> <<[address |-> "x", linearPoolAddr |-> "L1"],
                          [address |-> "y", linearPoolAddr |-> "L2"]>>]

\* VirtualBoostedPool.createPools(subgraphPools).subgraph: the descriptor of
\* the virtual pool of the group, at the hub's address.
virtualSubgraph ==
    << [id |-> "p5-0005virtualboosted", address |-> "p5",
        poolType |-> "VirtualBoosted",
        tokens |-> <<[address |-> "x", decimals |-> 0, linearPoolAddr |-> "L1"],
                     [address |-> "y", decimals |-> 0, linearPoolAddr |-> "L2"]>>] >>

\* eventPools.allPools as generateState leaves it:
\* [...virtualBoostedPools.subgraph, ...subgraphPools]
AllPools == virtualSubgraph \o subgraphPools

\* What generateState(1) leaves: the pool list and its boosted groups, and
\* as snapshot the on-chain state of the event-supported pools at that block.
InitEventPools ==
    /\ initial = [p \in {"p1", "p2"} |-> ChainBalances(p, 1)]
    /\ heap = <<PoolStateOf(initial.p1), PoolStateOf(initial.p2)>>
    /\ state = [p1 |-> 1, p2 |-> 2]
    /\ stateBlockNumber = 1
    /\ eventPools = [allPools |-> AllPools,
                     virtualBoostedPools |-> virtualBoostedPools]
    /\ lastCall = NoCall
    /\ moved = [p \in DOMAIN initial |-> [t \in DOMAIN initial[p] |-> 0]]
    /\ nLogs = 0

\* The BalancerV2 constructor.
InitBalancerV2 ==
    /\ eventDisabledPools = {}
    /\ nonEventPoolStateCache = [blockNumber |-> 0, poolState |-> <<>>]

\* No function has been called on its own yet.
Uncalled == [fn |-> "none"]

\* The calls of initializePricing; a timer is named after the call that
\* created it.
InitIds == 1..MaxInits

\* BalancerV2 after its constructor: no timer stored, none running, no
\* initializePricing call made, releaseResources not called.
NoPricing ==
    [eventDisabledPoolsTimer |-> Undefined,
     timers |-> {},
     pc |-> [i \in InitIds |-> "idle"],
     afterRelease |-> [i \in InitIds |-> FALSE],
     released |-> FALSE,
     raised |-> {},
     last |-> "none"]

InitSync ==
    /\ InitEventPools
    /\ InitBalancerV2
    /\ call = Uncalled
    /\ pricing = NoPricing
    /\ quotes = <<>>
    /\ nQuotes = 0

NextSync == \E log \in Logs : Update(log)

SpecSync == InitSync /\ [][NextSync]_vars

----------------------------------------------------------------------------
(* Views of the last processLog call *)

\* The snapshot processLog was given, as it was when it was called.
In == Deref(lastCall.heapBefore, lastCall.input)

\* The same snapshot object, read after the call returned.
InAfter == Deref(lastCall.heapAfter, lastCall.input)

\* The snapshot processLog returned (when it returned one).
Out == Deref(lastCall.heapAfter, lastCall.output)

\* The snapshot that is current now.
Current == Deref(heap, state)

CallPool == LogPool(lastCall.log)
CallTracked == CallPool \in DOMAIN lastCall.input
Returned == lastCall.outcome = "return" /\ ~lastCall.null
ReturnedNull == lastCall.outcome = "return" /\ lastCall.null

\* Every pool other than p, and every field of p but its token balances,
\* is the same in snapshot y as in snapshot x.
SameExceptBalancesOf(x, y, p) ==
    /\ DOMAIN y = DOMAIN x
    /\ \A q \in DOMAIN x \ {p} : y[q] = x[q]
    /\ y[p].swapFee = x[p].swapFee
    /\ DOMAIN y[p].tokens = DOMAIN x[p].tokens

IsSwapOfPoolTokens ==
    /\ lastCall.log.topic = "Swap"
    /\ CallTracked
    /\ toLowerCase(lastCall.log.tokenIn) \in DOMAIN In[CallPool].tokens
    /\ toLowerCase(lastCall.log.tokenOut) \in DOMAIN In[CallPool].tokens

IsBalanceChanged == lastCall.log.topic = "PoolBalanceChanged" /\ CallTracked

\* A balance-changed event that names a token the pool state does not hold,
\* or whose deltas or fees are shorter than its token list.
Malformed ==
    \E i \in 1..Len(lastCall.log.tokens) :
        \/ toLowerCase(lastCall.log.tokens[i]) \notin DOMAIN In[CallPool].tokens
        \/ i > Len(lastCall.log.deltas)
        \/ i > Len(lastCall.log.protocolFeeAmounts)

ListedTokens ==
    { toLowerCase(lastCall.log.tokens[i]) : i \in 1..Len(lastCall.log.tokens) }

\* The event cannot be decoded, or its handler fails.
Failing ==
    \/ lastCall.log.topic = "unknown"
    \/ /\ lastCall.log.topic = "Swap"
       /\ CallTracked
       /\ ~IsSwapOfPoolTokens
    \/ IsBalanceChanged /\ Malformed

----------------------------------------------------------------------------
C2_BalanceChangedAllOrNothing ==
    IsBalanceChanged =>
        LET l == lastCall.log
            p == CallPool
        IN  IF Malformed
            THEN ReturnedNull /\ Current = In
            ELSE /\ Returned
                 /\ Current = Out
                 /\ SameExceptBalancesOf(In, Out, p)
                 /\ \A i \in 1..Len(l.tokens) :
                       Out[p].tokens[toLowerCase(l.tokens[i])].balance =
                           In[p].tokens[toLowerCase(l.tokens[i])].balance
                               + l.deltas[i] - l.protocolFeeAmounts[i]
                 /\ \A t \in DOMAIN In[p].tokens \ ListedTokens :
                       Out[p].tokens[t] = In[p].tokens[t]

\* The handler failed at the second listed token after it had updated the
\* first one on the working copy, which was then dropped.
C2_Witness ==
    /\ IsBalanceChanged
    /\ Len(lastCall.log.tokens) = 2
    /\ toLowerCase(lastCall.log.tokens[1]) \in DOMAIN In[CallPool].tokens
    /\ toLowerCase(lastCall.log.tokens[2]) \notin DOMAIN In[CallPool].tokens
    /\ ReturnedNull
    /\ \E o \in DOMAIN lastCall.heapAfter :
          /\ o \notin DOMAIN lastCall.heapBefore
          /\ \A q \in DOMAIN In : lastCall.heapAfter[o] # In[q]

(* C3: an event for a pool that is not in the snapshot, and an event whose *)
(* name has no handler, are no-ops: processLog returns, without error and  *)
(* not null, a snapshot whose pool states equal those of its input.        *)
C3_UntrackedOrUnhandledIsNoOp ==
    (\/ lastCall.log.topic \in handlers /\ ~CallTracked
     \/ lastCall.log.topic \in VaultEventNames \ handlers)
        => Returned /\ Out = In

\* A Swap addressed to the untracked pool px was processed.
C3_Witness ==
    /\ lastCall.log.topic = "Swap"
    /\ CallPool = "px"
    /\ ~CallTracked
    /\ Returned

(* C4: when the event cannot be decoded or its handler fails, processLog   *)
(* returns null and does not throw, the prior snapshot stays current with  *)
(* every pool state unchanged, and the next event is applied on top of     *)
(* that unchanged snapshot.                                                *)
C4_FailureReturnsNullAndKeepsSnapshot ==
    /\ Failing => ReturnedNull /\ Current = In
    /\ lastCall.prevNull => In = lastCall.prevInput

\* A swap was applied right after an event that had failed.
C4_Witness ==
    /\ lastCall.prevNull
    /\ IsSwapOfPoolTokens
    /\ Returned
    /\ Out # In
    /\ Current = Out

(* C5: processLog leaves the snapshot object it was given unchanged in     *)
(* every pool and token, whether the event is applied, ignored or fails.   *)
C5_InputSnapshotNotMutated ==
    lastCall.log.topic # "none" => InAfter = In

\* An event was applied: the returned snapshot differs from the given one.
C5_Witness ==
    /\ Returned
    /\ Out # In
    /\ InAfter = In

(* C6: every token balance of every pool of the current snapshot is a      *)
(* non-negative integer, after any sequence of Swap and balance-changed    *)
(* events from an initial snapshot with non-negative balances.             *)
C6_BalancesNonNegative ==
    \A p \in DOMAIN Current : \A t \in DOMAIN Current[p].tokens :
        Current[p].tokens[t].balance >= 0

(* C7: each tracked token's balance equals its initial balance plus the    *)
(* amounts of the applied events: amountIn of swaps into it, minus         *)
(* amountOut of swaps out of it, plus delta - fee of the balance changes   *)
(* naming it; skipped events (null result, untracked pool) add nothing.    *)
C7_NoBalanceLeakage ==
    /\ DOMAIN Current = DOMAIN initial
    /\ \A p \in DOMAIN initial :
          /\ DOMAIN Current[p].tokens = DOMAIN initial[p]
          /\ \A t \in DOMAIN initial[p] :
                Current[p].tokens[t].balance = initial[p][t] + moved[p][t]

\* One event was applied to p1 and the event after it was skipped.
C7_Witness ==
    /\ nLogs = 2
    /\ lastCall.null
    /\ moved["p1"]["a"] # 0
    /\ moved["p1"]["b"] # 0

----------------------------------------------------------------------------
(* The quote engine: BalancerV2.getPricesVolume and what it calls.         *)

dexKey == "BalancerV2"

\* The values of enum BalancerPoolTypes.
BalancerPoolTypes ==
    {"Weighted", "Stable", "MetaStable", "LiquidityBootstrapping",
     "Investment", "AaveLinear", "StablePhantom", "VirtualBoosted",
     "ERC4626Linear"}

\* The number of candidates getPools keeps.
MaxCandidates == 10

HasTokenAddress(pool, token) ==
    \E i \in 1..Len(pool.tokens) :
        toLowerCase(pool.tokens[i].address) = toLowerCase(token.address)

\* getPools over a given value of this.eventPools.allPools.
getPoolsOf(allPools, from, to) ==
    LET both == SelectSeq(allPools,
                    LAMBDA pl : HasTokenAddress(pl, from) /\ HasTokenAddress(pl, to))
    IN  SubSeq(both, 1, IF Len(both) < MaxCandidates THEN Len(both)
                        ELSE MaxCandidates)

getPools(from, to) == getPoolsOf(eventPools.allPools, from, to)

\* `${this.dexKey}_${address.toLowerCase()}`
Identifier(address) == dexKey \o "_" \o toLowerCase(address)

\* pool.id.split(pool.poolType.toLowerCase())[0]: the id up to the pool
\* type when the id holds it (the id of a virtual pool is the hub's id
\* followed by its type), the whole id when it does not.
GroupIdOf(pool) ==
    LET separator == toLowerCase(pool.poolType)
        heads == { AllPools[i].id : i \in 1..Len(AllPools) }
        before == { h \in heads : h \o separator = pool.id }
    IN  IF before # {} THEN CHOOSE h \in before : TRUE ELSE pool.id

\* The filter of allowedPools.
IsAllowedByOwnIdentifier(pool, limitPools) ==
    Identifier(pool.address) \in limitPools

IsAllowed(pool, limitPools) ==
    IF Identifier(pool.address) \notin limitPools THEN FALSE
    ELSE IF GroupIdOf(pool) \in DOMAIN eventPools.virtualBoostedPools
    THEN /\ (Identifier(pool.address) \o "virtualboosted") \in limitPools
         /\ \A i \in 1..Len(eventPools.virtualBoostedPools[GroupIdOf(pool)]
                                 .mainTokens) :
               Identifier(eventPools.virtualBoostedPools[GroupIdOf(pool)]
                              .mainTokens[i].linearPoolAddr) \in limitPools
    ELSE TRUE

\* allowedPools: limitPools ? poolsWithTokens.filter(...) : poolsWithTokens
AllowedPools(poolsWithTokens, limitPools) ==
    IF limitPools.given
    THEN SelectSeq(poolsWithTokens, LAMBDA pl : IsAllowed(pl, limitPools.ids))
    ELSE poolsWithTokens

\* The identifiers getPoolIdentifiers pushes for one pool.
IdentifiersOf(p) ==
    <<Identifier(p.address)>> \o
    (IF p.poolType = "VirtualBoosted"
     THEN <<Identifier(p.address) \o "virtualboosted">> \o
          [i \in 1..Len(p.tokens) |-> Identifier(p.tokens[i].linearPoolAddr)]
     ELSE <<>>)

\* getPoolIdentifiers(from, to, side, blockNumber)
RECURSIVE IdentifiersFrom(_, _)
IdentifiersFrom(pools, n) ==
    IF n > Len(pools) THEN <<>>
    ELSE IdentifiersOf(pools[n]) \o IdentifiersFrom(pools, n + 1)

getPoolIdentifiers(from, to, side) ==
    IF side = "BUY" THEN <<>> ELSE IdentifiersFrom(getPools(from, to), 1)

\* getBigIntPow(decimals)
RECURSIVE getBigIntPow(_)
getBigIntPow(decimals) ==
    IF decimals = 0 THEN 1 ELSE 10 * getBigIntPow(decimals - 1)

isSupportedPool(poolType) == poolType \in BalancerPoolTypes

\* StatefulEventSubscriber.getState(blockNumber): the current snapshot when
\* it is the one of that block, null otherwise.
getState(blockNumber) ==
    IF blockNumber = stateBlockNumber
    THEN [null |-> FALSE, state |-> Deref(heap, state)]
    ELSE [null |-> TRUE, state |-> <<>>]

\* { ...(eventPoolStatesRO || {}) } and, for each disabled address,
\* delete eventPoolStates[addr].
RemoveDisabledKeepsAll(eventPoolStatesRO, disabled) == eventPoolStatesRO

RemoveDisabled(eventPoolStatesRO, disabled) ==
    [a \in DOMAIN eventPoolStatesRO \ disabled |-> eventPoolStatesRO[a]]

\* const eventPoolStates = { ...(eventPoolStatesRO || {}) }: whether the
\* object the deletes act on is the one getState returned.  The spread
\* makes a new object; plain assignment would name the snapshot itself.
AssignedFrom(ro) == [aliased |-> ~ro.null]

SpreadOf(ro) == [aliased |-> FALSE]

\* The Synchronizer's snapshot after `delete eventPoolStates[addr]` for each
\* disabled address.
SnapshotAfterDeletes(ro, disabled) ==
    IF SpreadOf(ro).aliased
    THEN [a \in DOMAIN state \ disabled |-> state[a]]
    ELSE state

\* Both return the cache as it is left and the map handed to the caller.
getCacheWithoutReset(cache, blockNumber) ==
    [cache |-> cache, poolState |-> cache.poolState]

getNonEventPoolStateCache(cache, blockNumber) ==
    LET c == IF cache.blockNumber # blockNumber
             THEN [cache EXCEPT !.poolState = <<>>]
             ELSE cache
    IN  [cache |-> c, poolState |-> c.poolState]

updateCacheAlwaysMerging(cache, poolState, blockNumber) ==
    LET c == [blockNumber |-> blockNumber,
              poolState |-> poolState @@ cache.poolState]
    IN  [cache |-> c, poolState |-> c.poolState]

updateNonEventPoolStateCache(cache, poolState, blockNumber) ==
    LET c == IF cache.blockNumber # blockNumber
             THEN [blockNumber |-> blockNumber, poolState |-> poolState]
             ELSE [cache EXCEPT !.poolState = poolState @@ cache.poolState]
    IN  [cache |-> c, poolState |-> c.poolState]

\* The pools of a list that neither map holds.
MissingPools(allowedPools, eventPoolStates, nonEventPoolStates) ==
    SelectSeq(allowedPools,
        LAMBDA pl : ~(\/ toLowerCase(pl.address) \in DOMAIN eventPoolStates
                      \/ toLowerCase(pl.address) \in DOMAIN nonEventPoolStates))

\* getOnChainState(pools, blockNumber) when every read-call batch succeeds:
\* the state at that block of each pool of a supported type.
getOnChainState(pools, blockNumber) ==
    LET supported == { i \in 1..Len(pools) : isSupportedPool(pools[i].poolType) }
    IN  [a \in { toLowerCase(pools[i].address) : i \in supported } |->
            OnChainState(a, blockNumber)]

----------------------------------------------------------------------------
(* The pool-type strategies (balancer-v2-pool.ts and the other pool        *)
(* classes), reduced to a constant-product rule over the two balances.     *)

\* A virtual pool is priced through the boosted group of its hub in the
\* dictionary it is handed; reading a group that is not there throws.
parsePoolPairData(pool, poolStates, from, to, groups) ==
    LET a == toLowerCase(pool.address)
        ti == toLowerCase(from.address)
        to_ == toLowerCase(to.address)
    IN  IF \/ /\ pool.poolType = "VirtualBoosted"
              /\ GroupIdOf(pool) \notin DOMAIN groups
           \/ a \notin DOMAIN poolStates
           \/ ti \notin DOMAIN poolStates[a].tokens
           \/ to_ \notin DOMAIN poolStates[a].tokens
        THEN [threw |-> TRUE, balanceIn |-> 0, balanceOut |-> 0, gasCost |-> 0,
              state |-> <<>>]
        ELSE [threw |-> FALSE,
              balanceIn |-> poolStates[a].tokens[ti].balance,
              balanceOut |-> poolStates[a].tokens[to_].balance,
              gasCost |-> 1,
              state |-> poolStates[a]]

SeqMax(xs) == CHOOSE m \in {xs[i] : i \in 1..Len(xs)} :
                  \A i \in 1..Len(xs) : xs[i] <= m

checkBalance(amounts, unitVolume, side, poolPairData) ==
    SeqMax(<<unitVolume>> \o amounts) <= poolPairData.balanceIn

onSell(amounts, poolPairData) ==
    [i \in 1..Len(amounts) |->
        (poolPairData.balanceOut * amounts[i])
            \div (poolPairData.balanceIn + amounts[i])]

----------------------------------------------------------------------------

NoPrices ==
    [threw |-> FALSE, null |-> TRUE, unit |-> 0, prices |-> <<>>, gasCost |-> 0,
     pricedFrom |-> <<>>]

\* const _amounts = [unitVolume, ...amounts.slice(1)]
AmountsAsGiven(unitVolume, amounts) == amounts

UnitThenAmounts(unitVolume, amounts) == <<unitVolume>> \o Tail(amounts)

\* pricedFrom is the pool state the strategy was handed for the pool; source
\* tells which of the two maps merged into completePoolStates it came from.
getPricesPool(from, to, pool, poolStates, amounts, unitVolume, side) ==
    IF ~isSupportedPool(pool.poolType) THEN NoPrices
    ELSE LET _amounts == UnitThenAmounts(unitVolume, amounts)
             poolPairData == parsePoolPairData(pool, poolStates, from, to,
                                               eventPools.virtualBoostedPools)
         IN  IF poolPairData.threw THEN [NoPrices EXCEPT !.threw = TRUE]
             ELSE IF ~checkBalance(amounts, unitVolume, side, poolPairData)
             THEN NoPrices
             ELSE LET _prices == onSell(_amounts, poolPairData)
                  IN  [threw |-> FALSE, null |-> FALSE, unit |-> _prices[1],
                       prices |-> <<0>> \o Tail(_prices),
                       gasCost |-> poolPairData.gasCost,
                       pricedFrom |-> poolPairData.state]

\* poolAddresses of a result: the pool's address and, for the hub of a
\* boosted group of the current dictionary, its linear pools' addresses.
PoolAddressesOf(pool) ==
    LET id == GroupIdOf(pool)
        groups == eventPools.virtualBoostedPools
    IN  <<toLowerCase(pool.address)>> \o
        (IF id \in DOMAIN groups
         THEN [i \in 1..Len(groups[id].mainTokens) |->
                  toLowerCase(groups[id].mainTokens[i].linearPoolAddr)]
         ELSE <<>>)

\* One element of allowedPools.map(...): the result for one pool, or null.
PricePool(q, pool, nonEventPoolStates, completePoolStates) ==
    LET poolAddress == toLowerCase(pool.address)
        found == \/ poolAddress \in DOMAIN q.eventPoolStates
                 \/ poolAddress \in DOMAIN nonEventPoolStates
        res == getPricesPool(q.from, q.to, pool, completePoolStates,
                             q.amounts, q.unitVolume, q.side)
    IN  IF ~found \/ res.threw \/ res.null
        THEN [null |-> TRUE]
        ELSE [null |-> FALSE, unit |-> res.unit, prices |-> res.prices,
              data |-> [poolId |-> pool.id],
              poolAddresses |-> PoolAddressesOf(pool),
              exchange |-> dexKey, gasCost |-> res.gasCost,
              poolIdentifier |-> dexKey \o "_" \o pool.id,
              pricedFrom |-> res.pricedFrom,
              source |-> IF poolAddress \in DOMAIN nonEventPoolStates
                         THEN "nonEvent" ELSE "event"]

\* The addresses for which `Unable to find the poolState` is logged: the
\* allowed pools that neither eventPoolStates nor nonEventPoolStates holds.
UnableToFind(q, nonEventPoolStates) ==
    { toLowerCase(q.allowedPools[i].address) : i \in
        { j \in 1..Len(q.allowedPools) :
            /\ toLowerCase(q.allowedPools[j].address)
                  \notin DOMAIN q.eventPoolStates
            /\ toLowerCase(q.allowedPools[j].address)
                  \notin DOMAIN nonEventPoolStates } }

\* { ...eventPoolStatesRO, ...nonEventPoolStates }: a later spread
\* overwrites the keys of an earlier one.
EventStatesOverCache(q, nonEventPoolStates) ==
    q.eventPoolStatesRO @@ nonEventPoolStates

CompletePoolStates(q, nonEventPoolStates) ==
    nonEventPoolStates @@ q.eventPoolStatesRO

\* .filter(p => !!p) over the per-pool results.
NoneUnlessAll(perPool) ==
    IF \E i \in 1..Len(perPool) : perPool[i].null THEN <<>> ELSE perPool

NonNull(perPool) == SelectSeq(perPool, LAMBDA r : ~r.null)

\* poolPrices, the end of getPricesVolume.
PricePools(q, nonEventPoolStates) ==
    LET completePoolStates == CompletePoolStates(q, nonEventPoolStates)
        all == [i \in 1..Len(q.allowedPools) |->
                   PricePool(q, q.allowedPools[i], nonEventPoolStates,
                             completePoolStates)]
    IN  NonNull(all)

----------------------------------------------------------------------------
(* getPricesVolume as a process: it suspends at `await getState` and at    *)
(* `await getOnChainState`; everything between two awaits is one step.     *)

QuoteIds == {1, 2}
QuoteAmounts == <<0, 1, MaxAmount>>
QuoteTokens == [from |-> [address |-> "A", decimals |-> 0],
                to |-> [address |-> "B", decimals |-> 0]]
LimitPoolsChoices ==
    { [given |-> FALSE, ids |-> {}],
      [given |-> TRUE, ids |-> {Identifier("p2"), Identifier("p3")}] }
DisabledChoices == { {}, {"p2"} }

IdleQuote ==
    [pc |-> "idle", from |-> QuoteTokens.from, to |-> QuoteTokens.to,
     amounts |-> QuoteAmounts, side |-> "SELL", blockNumber |-> 0,
     allowedPools |-> <<>>, unitVolume |-> 0,
     eventNull |-> FALSE, eventPoolStatesRO |-> <<>>, eventPoolStates |-> <<>>,
     disabledSeen |-> {}, missingPools |-> <<>>,
     completePoolStates |-> <<>>,
     \* the cache as the call found it before its first access, kept
     \* while the call waits for its fetch and when the fetch fails
     cacheAtStart |-> [blockNumber |-> 0, poolState |-> <<>>],
     fetchRejected |-> FALSE,
     \* whether the call awaited a fetch that resolved, and the pools it
     \* then found no state for
     fetched |-> FALSE, unableToFind |-> {},
     \* eventPools as it was when the candidates were selected, and the
     \* boosted groups read when they were priced
     selectedFrom |-> [allPools |-> <<>>, virtualBoostedPools |-> <<>>],
     pricedWith |-> <<>>,
     returned |-> "pending", poolPrices |-> <<>>]

\* From the call to `await this.eventPools.getState(blockNumber)`.
StartQuoteOn(tokens, max, id, side, blockNumber, limitPools) ==
    /\ quotes[id].pc \in {"idle", "done"}
    /\ nQuotes < max
    /\ nQuotes' = nQuotes + 1
    /\ LET q0 == [IdleQuote EXCEPT !.from = tokens.from, !.to = tokens.to,
                                   !.side = side, !.blockNumber = blockNumber]
           poolsWithTokens == getPools(q0.from, q0.to)
           allowedPools == AllowedPools(poolsWithTokens, limitPools)
       IN  quotes' = [quotes EXCEPT ![id] =
               IF side = "BUY" \/ Len(allowedPools) = 0
               THEN [q0 EXCEPT !.pc = "done", !.returned = "null"]
               ELSE [q0 EXCEPT !.pc = "getState",
                               !.allowedPools = allowedPools,
                               !.selectedFrom = eventPools,
                               !.unitVolume = getBigIntPow(q0.from.decimals)]]
    /\ UNCHANGED <<syncVars, stateBlockNumber, eventDisabledPools,
                   nonEventPoolStateCache, call, pricing, eventPools>>

StartQuoteWithin(max, id, side, blockNumber, limitPools) ==
    StartQuoteOn(QuoteTokens, max, id, side, blockNumber, limitPools)

StartQuote(id, side, blockNumber, limitPools) ==
    StartQuoteWithin(MaxQuotes, id, side, blockNumber, limitPools)

\* From the return of getState to `await getOnChainState`, or to the end
\* when no pool is missing.
AfterGetState(id) ==
    /\ quotes[id].pc = "getState"
    /\ LET q == quotes[id]
           ro == getState(q.blockNumber)
           eventPoolStates == RemoveDisabled(ro.state, eventDisabledPools)
           got == getNonEventPoolStateCache(nonEventPoolStateCache,
                                            q.blockNumber)
           missingPools == MissingPools(q.allowedPools, eventPoolStates,
                                        got.poolState)
           q1 == [q EXCEPT !.eventNull = ro.null,
                           !.eventPoolStatesRO = ro.state,
                           !.eventPoolStates = eventPoolStates,
                           !.disabledSeen = eventDisabledPools,
                           !.missingPools = missingPools]
       IN  /\ state' = SnapshotAfterDeletes(ro, eventDisabledPools)
           /\ nonEventPoolStateCache' = got.cache
           /\ quotes' = [quotes EXCEPT ![id] =
                 IF Len(missingPools) > 0
                 THEN [q1 EXCEPT !.pc = "fetch",
                                 !.cacheAtStart = nonEventPoolStateCache]
                 ELSE [q1 EXCEPT !.pc = "done", !.returned = "prices",
                                 !.unableToFind =
                                     UnableToFind(q1, got.poolState),
                                 !.pricedWith = eventPools.virtualBoostedPools,
                                 !.completePoolStates =
                                     CompletePoolStates(q1, got.poolState),
                                 !.poolPrices = PricePools(q1, got.poolState)]]
    /\ UNCHANGED <<heap, lastCall, initial, moved, nLogs, stateBlockNumber,
                   eventDisabledPools, nQuotes, call, pricing, eventPools>>

\* getOnChainState resolves: the cache is updated and the pools are priced.
AfterFetch(id) ==
    /\ quotes[id].pc = "fetch"
    /\ LET q == quotes[id]
           missingPoolsStateMap == getOnChainState(q.missingPools, q.blockNumber)
           upd == updateNonEventPoolStateCache(nonEventPoolStateCache,
                      missingPoolsStateMap, q.blockNumber)
       IN  /\ nonEventPoolStateCache' = upd.cache
           /\ quotes' = [quotes EXCEPT ![id] =
                 [q EXCEPT !.pc = "done", !.returned = "prices",
                           !.cacheAtStart = IdleQuote.cacheAtStart,
                           !.fetched = TRUE,
                           !.pricedWith = eventPools.virtualBoostedPools,
                           !.unableToFind = UnableToFind(q, upd.poolState),
                           !.completePoolStates =
                               CompletePoolStates(q, upd.poolState),
                           !.poolPrices = PricePools(q, upd.poolState)]]
    /\ UNCHANGED <<syncVars, stateBlockNumber, eventDisabledPools, nQuotes,
                   call, pricing, eventPools>>

\* The outer catch of getPricesVolume: log the error, return null.
CatchPricingTheRest(q) ==
    [q EXCEPT !.pc = "done", !.returned = "prices",
              !.poolPrices = PricePools(q, <<>>)]

OuterCatch(q) == [q EXCEPT !.pc = "done", !.returned = "null"]

\* getOnChainState rejects: the await throws into the outer catch.
FetchFails(id) ==
    /\ quotes[id].pc = "fetch"
    /\ quotes' = [quotes EXCEPT ![id] =
          OuterCatch([quotes[id] EXCEPT !.fetchRejected = TRUE])]
    /\ UNCHANGED <<syncVars, stateBlockNumber, eventDisabledPools,
                   nonEventPoolStateCache, nQuotes, call, pricing, eventPools>>

\* fetchEventDisabledPools succeeds, at start-up or on the timer.
RefreshDisabledPools(pools) ==
    /\ eventDisabledPools # pools
    /\ eventDisabledPools' = pools
    /\ UNCHANGED <<syncVars, stateBlockNumber, nonEventPoolStateCache, quotes,
                   nQuotes, call, pricing, eventPools>>

\* The logs of the next block are applied and the snapshot moves to it.
BlockLogs ==
    { l \in VaultSwapLogs :
        /\ l.poolId[1] = "p2"
        /\ l.tokenIn = "A" /\ l.tokenOut = "B"
        /\ l.amountIn = 1 /\ l.amountOut = 1 }

NewBlock(log) ==
    /\ stateBlockNumber < MaxBlock
    /\ stateBlockNumber' = stateBlockNumber + 1
    /\ ApplyLog(log)
    /\ UNCHANGED <<quoteVars, call, pricing, eventPools>>

InitQuote ==
    /\ InitEventPools
    /\ InitBalancerV2
    /\ call = Uncalled
    /\ pricing = NoPricing
    /\ quotes = [id \in QuoteIds |-> IdleQuote]
    /\ nQuotes = 0

NextQuote ==
    \/ \E id \in QuoteIds, side \in {"SELL", "BUY"}, b \in Blocks,
          lp \in LimitPoolsChoices : StartQuote(id, side, b, lp)
    \/ \E id \in QuoteIds : AfterGetState(id)
    \/ \E id \in QuoteIds : AfterFetch(id)
    \/ \E id \in QuoteIds : FetchFails(id)
    \/ \E pools \in DisabledChoices : RefreshDisabledPools(pools)
    \/ \E log \in BlockLogs : NewBlock(log)

SpecQuote == InitQuote /\ [][NextQuote]_vars

\* The same engine with one more getPricesVolume call in a behaviour: a
\* call can then find in the cache what an earlier call stored and lose it
\* to a third call while it waits for its own fetch.
StartRacingQuote(id, side, blockNumber, limitPools) ==
    StartQuoteWithin(MaxRacingQuotes, id, side, blockNumber, limitPools)

NextCacheRace ==
    \/ \E id \in QuoteIds, side \in {"SELL", "BUY"}, b \in Blocks,
          lp \in LimitPoolsChoices : StartRacingQuote(id, side, b, lp)
    \/ \E id \in QuoteIds : AfterGetState(id)
    \/ \E id \in QuoteIds : AfterFetch(id)
    \/ \E id \in QuoteIds : FetchFails(id)
    \/ \E pools \in DisabledChoices : RefreshDisabledPools(pools)
    \/ \E log \in BlockLogs : NewBlock(log)

SpecCacheRace == InitQuote /\ [][NextCacheRace]_vars

----------------------------------------------------------------------------
(* Views of the quotes *)

Cache == nonEventPoolStateCache

\* The quotes that returned a list of prices.
Priced == { id \in DOMAIN quotes :
              quotes[id].pc = "done" /\ quotes[id].returned = "prices" }

Results(id) == { quotes[id].poolPrices[i] : i \in 1..Len(quotes[id].poolPrices) }

ResultAddress(r) == r.poolAddresses[1]

(* C8: the non-event cache never mixes heights: under every interleaving   *)
(* of quotes at different block numbers, each pool state held in           *)
(* nonEventPoolStateCache.poolState is the state fetched at exactly        *)
(* nonEventPoolStateCache.blockNumber, so entries of one height are gone   *)
(* before an entry of another height is stored.                            *)
C8_CacheHoldsOneHeight ==
    \A a \in DOMAIN Cache.poolState :
        Cache.poolState[a] = OnChainState(a, Cache.blockNumber)

\* A quote at block 1 is suspended at its fetch, having emptied or read the
\* cache, while the cache holds the entries another quote stored for block 2.
C8_Witness ==
    \E id \in DOMAIN quotes :
        /\ quotes[id].pc = "fetch"
        /\ quotes[id].blockNumber = 1
        /\ Cache.blockNumber = 2
        /\ DOMAIN Cache.poolState # {}

(* C9: every pool state handed to a pricing strategy in a quote at         *)
(* blockNumber B (every entry of completePoolStates, and so the state each *)
(* result was priced from) is either the pool's state in the event         *)
(* snapshot that getState returned for B or the pool's on-chain state at   *)
(* exactly B, whatever quotes at other heights ran interleaved.            *)
C9_QuotePricesFromOneHeight ==
    \A id \in Priced :
        LET q == quotes[id]
            OfHeight(a, st) ==
                \/ st = OnChainState(a, q.blockNumber)
                \/ /\ ~q.eventNull
                   /\ a \in DOMAIN q.eventPoolStatesRO
                   /\ st = q.eventPoolStatesRO[a]
        IN  /\ \A a \in DOMAIN q.completePoolStates :
                  OfHeight(a, q.completePoolStates[a])
            /\ \A r \in Results(id) :
                  /\ r.pricedFrom = q.completePoolStates[ResultAddress(r)]
                  /\ OfHeight(ResultAddress(r), r.pricedFrom)

\* A quote priced one pool from the snapshot and one from the chain, and
\* its fetch resolved after a quote at block 2 had gone through the cache.
C9_Witness ==
    \E id \in Priced, other \in DOMAIN quotes :
        /\ quotes[id].blockNumber = 1
        /\ \E r \in Results(id) : r.source = "event"
        /\ \E r \in Results(id) : r.source = "nonEvent"
        /\ quotes[other].pc = "fetch"
        /\ quotes[other].blockNumber = 2
        /\ Cache.blockNumber = 1
        /\ DOMAIN Cache.poolState # {}

(* C10, as claimed: a pool whose address is in eventDisabledPools at quote *)
(* time never appears in the quote results.                                *)
C10_DisabledPoolNeverInResults ==
    \A id \in Priced : \A r \in Results(id) :
        ResultAddress(r) \notin quotes[id].disabledSeen

(* C10, amended: a pool whose address is in eventDisabledPools at quote    *)
(* time is never priced from its state in the event snapshot; when it      *)
(* appears in the quote results it was priced from the on-chain state      *)
(* fetched or cached at the quote's blockNumber.                           *)
C10_DisabledPoolPricedFromChain ==
    \A id \in Priced : \A r \in Results(id) :
        ResultAddress(r) \in quotes[id].disabledSeen =>
            /\ r.source = "nonEvent"
            /\ r.pricedFrom = OnChainState(ResultAddress(r),
                                           quotes[id].blockNumber)

\* p2 is disabled, is in the snapshot getState returned with a state that
\* events have moved away from the chain's, and is in the results.
C10_Witness ==
    \E id \in Priced : \E r \in Results(id) :
        /\ ResultAddress(r) = "p2"
        /\ "p2" \in quotes[id].disabledSeen
        /\ "p2" \in DOMAIN quotes[id].eventPoolStatesRO
        /\ quotes[id].eventPoolStatesRO["p2"] # r.pricedFrom

(* C11: removing disabled pools happens only on the quote's private view:  *)
(* no step of a quote, whatever the Disabled-Pool Set, changes the         *)
(* Synchronizer's current snapshot (its map, its pool objects, its block), *)
(* so the snapshot keeps every event pool, disabled or not, and each       *)
(* pool's balances stay the first snapshot's plus every event applied.     *)
C11_QuoteLeavesSnapshotUnchanged ==
    /\ [][quotes' # quotes => UNCHANGED <<heap, state, stateBlockNumber>>]_vars
    /\ [](/\ DOMAIN state = DOMAIN initial
          /\ \A p \in DOMAIN initial : \A t \in DOMAIN initial[p] :
                Current[p].tokens[t].balance = initial[p][t] + moved[p][t])

\* A quote that saw p2 both disabled and in the snapshot has returned, and
\* an event of a later block has since moved p2's balances in the snapshot.
C11_Witness ==
    \E id \in DOMAIN quotes :
        /\ quotes[id].pc = "done"
        /\ "p2" \in quotes[id].disabledSeen
        /\ ~quotes[id].eventNull
        /\ "p2" \in DOMAIN quotes[id].eventPoolStatesRO
        /\ "p2" \in DOMAIN state
        /\ Current["p2"] # quotes[id].eventPoolStatesRO["p2"]
        /\ moved["p2"]["a"] > 0

----------------------------------------------------------------------------
(* Functions checked on their own: each action calls one of them on inputs *)
(* drawn from a small set and records the call; a behaviour makes one call.*)

\* Amount vectors as the pricing engine sends them, any value in front.
AmountVectors == UNION { [1..n -> {0, 1, MaxAmount}] : n \in 1..3 }

\* A pool of a type that enum BalancerPoolTypes does not list.
ElementPool ==
    [id |-> "p4-0004", address |-> "p4", poolType |-> "Element",
     tokens |-> <<[address |-> "a", decimals |-> 0],
                  [address |-> "b", decimals |-> 0]>>]

PricedPools == { AllPools[i] : i \in 1..Len(AllPools) } \cup {ElementPool}

PoolBalances == {MaxAmount, 10 * MaxAmount}

\* getPricesVolume's call of getPricesPool for one pool, with the unit
\* volume it computes from the decimals of the token sold.
PricesPoolCall(decimals, amounts, pool, balance) ==
    /\ call = Uncalled
    /\ LET from == [address |-> "A", decimals |-> decimals]
           to == [address |-> "B", decimals |-> 0]
           poolStates == [a \in {toLowerCase(pool.address)} |->
                             PoolStateOf([a |-> balance, b |-> balance])]
           unitVolume == getBigIntPow(from.decimals)
       IN  call' = [fn |-> "getPricesPool", from |-> from, amounts |-> amounts,
                    unitVolume |-> unitVolume, pool |-> pool,
                    poolPairData |-> parsePoolPairData(pool, poolStates, from, to,
                                          eventPools.virtualBoostedPools),
                    res |-> getPricesPool(from, to, pool, poolStates, amounts,
                                          unitVolume, "SELL")]
    /\ UNCHANGED <<syncVars, stateBlockNumber, quoteVars, pricing, eventPools>>

\* The identifiers getPoolIdentifiers can hand out for the pool list.
AllIdentifiers ==
    { Identifier(AllPools[i].address) : i \in 1..Len(AllPools) }
        \cup { Identifier("p5") \o "virtualboosted" }

TokenPairs ==
    { <<[address |-> "A", decimals |-> 0], [address |-> "B", decimals |-> 0]>>,
      <<[address |-> "X", decimals |-> 0], [address |-> "Y", decimals |-> 0]>>,
      <<[address |-> "L1", decimals |-> 0], [address |-> "L2", decimals |-> 0]>> }

AllowLists ==
    { [given |-> FALSE, ids |-> {}] }
        \cup { [given |-> TRUE, ids |-> ids] : ids \in SUBSET AllIdentifiers }

\* The start of getPricesVolume: the candidates and the allowed pools.
AllowedPoolsCall(pair, limitPools) ==
    /\ call = Uncalled
    /\ LET poolsWithTokens == getPools(pair[1], pair[2])
       IN  call' = [fn |-> "allowedPools", from |-> pair[1], to |-> pair[2],
                    limitPools |-> limitPools,
                    poolsWithTokens |-> poolsWithTokens,
                    allowedPools |-> AllowedPools(poolsWithTokens, limitPools)]
    /\ UNCHANGED <<syncVars, stateBlockNumber, quoteVars, pricing, eventPools>>

\* getOnChainState at the level of its read calls.

\* The size of one tryAggregate batch.
MultiCallChunkSize == 500

\* Pool descriptors for the fetcher: `plan` is the number of read calls the
\* strategy of the pool plans for it, decodes for it and steps the cursor by.
PlanWidths == {2, 249, 500}
FetchAddresses == <<"q1", "q2", "q3">>
FetchTypes == {"Weighted", "AaveLinear", "Element"}
FetchPoolLists ==
    UNION { { [i \in 1..n |-> [address |-> FetchAddresses[i],
                                poolType |-> types[i], plan |-> widths[i]]] :
                types \in [1..n -> FetchTypes], widths \in [1..n -> PlanWidths] } :
            n \in 1..Len(FetchAddresses) }

RECURSIVE flat(_)
flat(xss) == IF Len(xss) = 0 THEN <<>> ELSE Head(xss) \o flat(Tail(xss))

RECURSIVE chunk(_, _)
chunk(xs, size) ==
    IF Len(xs) = 0 THEN <<>>
    ELSE IF Len(xs) <= size THEN <<xs>>
    ELSE <<SubSeq(xs, 1, size)>> \o chunk(SubSeq(xs, size + 1, Len(xs)), size)

\* this.pools[pool.poolType].getOnChainCalls(pool, virtualBoostedPools)
getOnChainCalls(pool) ==
    [k \in 1..pool.plan |-> [target |-> pool.address, slot |-> k]]

\* subgraphPoolBase.map(...).flat()
multiCallData(subgraphPoolBase) ==
    flat([i \in 1..Len(subgraphPoolBase) |->
            IF ~isSupportedPool(subgraphPoolBase[i].poolType) THEN <<>>
            ELSE getOnChainCalls(subgraphPoolBase[i])])

\* multiContract.methods.tryAggregate(false, batch).call({}, blockNumber):
\* one result per call, in order, read at blockNumber, or a rejection.
tryAggregate(batch, blockNumber, fails) ==
    [rejected |-> fails, blockNumber |-> blockNumber,
     value |-> IF fails THEN <<>>
               ELSE [k \in 1..Len(batch) |->
                        [call |-> batch[k], block |-> blockNumber]]]

\* await Promise.all(promises): every value, or the rejection of any.
PromiseAllSettled(outcomes) ==
    [rejected |-> FALSE,
     value |-> [k \in 1..Len(outcomes) |-> outcomes[k].value]]

PromiseAll(outcomes) ==
    IF \E k \in 1..Len(outcomes) : outcomes[k].rejected
    THEN [rejected |-> TRUE, value |-> <<>>]
    ELSE [rejected |-> FALSE,
          value |-> [k \in 1..Len(outcomes) |-> outcomes[k].value]]

\* this.pools[pool.poolType].decodeOnChainCalls(pool, returnData, i, ...):
\* the state decoded from the pool's slots and the cursor after them.
decodeOnChainCalls(pool, returnData, i) ==
    [decoded |-> pool.address :>
                    [reads |-> [k \in 1..pool.plan |-> Get(returnData, i + k)]],
     newIndex |-> i + pool.plan]

\* i = newIndex
CursorKept(i, newIndex) == i

CursorAfter(i, newIndex) == newIndex

\* subgraphPoolBase.reduce(...) from element n on; `cursors` records the
\* value of i at which each pool was decoded.
RECURSIVE DecodeFrom(_, _, _, _, _, _)
DecodeFrom(subgraphPoolBase, returnData, n, i, acc, cursors) ==
    IF n > Len(subgraphPoolBase)
    THEN [onChainStateMap |-> acc, i |-> i, cursors |-> cursors]
    ELSE LET pool == subgraphPoolBase[n]
         IN  IF ~isSupportedPool(pool.poolType)
             THEN DecodeFrom(subgraphPoolBase, returnData, n + 1, i, acc, cursors)
             ELSE LET d == decodeOnChainCalls(pool, returnData, i)
                  IN  DecodeFrom(subgraphPoolBase, returnData, n + 1,
                                 CursorAfter(i, d.newIndex),
                                 d.decoded @@ acc,
                                 (pool.address :> i) @@ cursors)

\* getOnChainState(subgraphPoolBase, blockNumber); failing is the set of
\* batches whose tryAggregate call rejects.
getOnChainStateByCalls(subgraphPoolBase, blockNumber, failing) ==
    LET calls == multiCallData(subgraphPoolBase)
        slicedMultiCallData == chunk(calls, MultiCallChunkSize)
        outcomes == [k \in 1..Len(slicedMultiCallData) |->
                        tryAggregate(slicedMultiCallData[k], blockNumber,
                                     k \in failing)]
        all == PromiseAll(outcomes)
        returnData == flat(all.value)
        reduced == DecodeFrom(subgraphPoolBase, returnData, 1, 0, <<>>, <<>>)
    IN  [multiCallData |-> calls,
         batches |-> [k \in 1..Len(outcomes) |->
                         [size |-> Len(slicedMultiCallData[k]),
                          blockNumber |-> outcomes[k].blockNumber,
                          rejected |-> outcomes[k].rejected]],
         rejected |-> all.rejected,
         returnData |-> IF all.rejected THEN <<>> ELSE returnData,
         onChainStateMap |-> IF all.rejected THEN <<>>
                             ELSE reduced.onChainStateMap,
         i |-> IF all.rejected THEN 0 ELSE reduced.i,
         cursors |-> IF all.rejected THEN <<>> ELSE reduced.cursors]

\* One call of getOnChainState.
OnChainStateCall(pools, blockNumber, failing) ==
    /\ call = Uncalled
    /\ failing \subseteq
          1..Len(chunk(multiCallData(pools), MultiCallChunkSize))
    /\ call' = [fn |-> "getOnChainState", pools |-> pools,
                blockNumber |-> blockNumber, failing |-> failing,
                res |-> getOnChainStateByCalls(pools, blockNumber, failing)]
    /\ UNCHANGED <<syncVars, stateBlockNumber, quoteVars, pricing, eventPools>>

\* Candidates that cannot be priced: a pool of a category no strategy
\* supports (it never has a state), a pool whose state lacks the token
\* bought so that its strategy throws, and a pool whose balance of the
\* token sold is too small for checkBalance.
BadPools ==
    { [pool |-> ElementPool, hasState |-> FALSE, balances |-> <<>>],
      [pool |-> [id |-> "p6-0008", address |-> "p6", poolType |-> "Weighted",
                 tokens |-> <<[address |-> "a", decimals |-> 0],
                              [address |-> "b", decimals |-> 0]>>],
       hasState |-> TRUE, balances |-> [a |-> 10 * MaxAmount]],
      [pool |-> [id |-> "p7-0009", address |-> "p7", poolType |-> "MetaStable",
                 tokens |-> <<[address |-> "a", decimals |-> 0],
                              [address |-> "b", decimals |-> 0]>>],
       hasState |-> TRUE, balances |-> [a |-> 0, b |-> 10 * MaxAmount]] }

\* The sequence xs with x put after its first k elements.
InsertAt(xs, k, x) == SubSeq(xs, 1, k) \o <<x>> \o SubSeq(xs, k + 1, Len(xs))

\* The pricing at the end of getPricesVolume, lines 720 to 777, for the
\* candidates on A and B with one bad pool among them and without it.
PoolPricesCall(bad, k, amounts, blockNumber) ==
    /\ call = Uncalled
    /\ LET others == getPools(QuoteTokens.from, QuoteTokens.to)
           event == [a \in {"p1", "p2"} |-> OnChainState(a, blockNumber)]
           nonEvent == [a \in {"p3"} |-> OnChainState(a, blockNumber)]
           nonEventWith ==
               IF bad.hasState
               THEN (bad.pool.address :> PoolStateOf(bad.balances)) @@ nonEvent
               ELSE nonEvent
           q == [IdleQuote EXCEPT !.amounts = amounts,
                                  !.blockNumber = blockNumber,
                                  !.unitVolume = getBigIntPow(QuoteTokens.from.decimals),
                                  !.eventPoolStatesRO = event,
                                  !.eventPoolStates = event,
                                  !.allowedPools = others]
           qWith == [q EXCEPT !.allowedPools = InsertAt(others, k, bad.pool)]
       IN  call' = [fn |-> "poolPrices", bad |-> bad.pool, k |-> k,
                    amounts |-> amounts, blockNumber |-> blockNumber,
                    poolPrices |-> PricePools(qWith, nonEventWith),
                    without |-> PricePools(q, nonEvent)]
    /\ UNCHANGED <<syncVars, stateBlockNumber, quoteVars, pricing, eventPools>>

\* generateState.

\* Every pool type of the enum; the filter of generateState with it would
\* keep the pools of all supported types.
allSupportedPoolTypes == BalancerPoolTypes

eventSupportedPoolTypes ==
    {"Stable", "Weighted", "LiquidityBootstrapping", "Investment"}

\* The list in the source holds one address, commented out.
eventRemovedPools == {}

\* What the subgraph may list: the pools above and one pool of each other type.
SubgraphCatalogue ==
    subgraphPools \o
    << [id |-> "p8-0010", address |-> "p8",
        poolType |-> "LiquidityBootstrapping",
        tokens |-> <<[address |-> "a", decimals |-> 0],
                     [address |-> "b", decimals |-> 0]>>],
       [id |-> "p9-0011", address |-> "p9", poolType |-> "Investment",
        tokens |-> <<[address |-> "a", decimals |-> 0],
                     [address |-> "b", decimals |-> 0]>>],
       [id |-> "l3-0012", address |-> "l3", poolType |-> "ERC4626Linear",
        tokens |-> <<[address |-> "a", decimals |-> 0],
                     [address |-> "wa", decimals |-> 0]>>],
       ElementPool >>

\* The elements of xs whose index is in S, from the n-th on, in order.
RECURSIVE Pick(_, _, _)
Pick(xs, S, n) ==
    IF n > Len(xs) THEN <<>>
    ELSE (IF n \in S THEN <<xs[n]>> ELSE <<>>) \o Pick(xs, S, n + 1)

\* VirtualBoostedPool.createPools(fetched): the boosted group when the hub
\* and both of its linear pools are listed, nothing otherwise.
createPools(fetched) ==
    IF {"p5", "l1", "l2"} \subseteq { fetched[i].address : i \in 1..Len(fetched) }
    THEN [subgraph |-> virtualSubgraph, dictionary |-> virtualBoostedPools]
    ELSE [subgraph |-> <<>>, dictionary |-> <<>>]

\* generateState(blockNumber) when fetchAllSubgraphPools resolves to
\* `fetched` and the read calls succeed.
generateState(fetched, blockNumber) ==
    LET created == createPools(fetched)
        allPools == created.subgraph \o fetched
        eventSupportedPools ==
            SelectSeq(allPools,
                LAMBDA pool :
                    /\ pool.poolType \in eventSupportedPoolTypes
                    /\ toLowerCase(pool.address) \notin eventRemovedPools)
    IN  [blockNumber |-> blockNumber,
         state |-> getOnChainState(eventSupportedPools, blockNumber),
         allPools |-> allPools]

GenerateStateCall(listed, blockNumber) ==
    /\ call = Uncalled
    /\ LET fetched == Pick(SubgraphCatalogue, listed, 1)
       IN  call' = [fn |-> "generateState", fetched |-> fetched,
                    blockNumber |-> blockNumber,
                    res |-> generateState(fetched, blockNumber)]
    /\ UNCHANGED <<syncVars, stateBlockNumber, quoteVars, pricing, eventPools>>

\* getPools.

\* Addresses of simple pools on X and Y, one more than getPools keeps.
SimpleAddresses ==
    <<"s1", "s2", "s3", "s4", "s5", "s6", "s7", "s8", "s9", "s10", "s11">>

\* The n-th simple pool; it holds Y unless it is in `lacking`.
SimplePool(n, lacking) ==
    [id |-> SimpleAddresses[n] \o "-0000", address |-> SimpleAddresses[n],
     poolType |-> "Weighted",
     tokens |-> IF n \in lacking
                THEN <<[address |-> "x", decimals |-> 0],
                       [address |-> "c", decimals |-> 0]>>
                ELSE <<[address |-> "x", decimals |-> 0],
                       [address |-> "y", decimals |-> 0]>>]

\* The boosted group: the hub and its two linear pools.
GroupPools == SelectSeq(subgraphPools, LAMBDA pl : pl.address \in {"p5", "l1", "l2"})

\* The subgraph's answer, ordered by totalLiquidity, highest first: the
\* list is given in that order and each descriptor is given its rank from
\* the end as its liquidity.
ByLiquidity(pools) ==
    [i \in 1..Len(pools) |->
        pools[i] @@ [totalLiquidity |-> Len(pools) - i + 1]]

\* The liquidity of a virtual pool is that of the hub of its group.
WithGroupLiquidity(allPools) ==
    [i \in 1..Len(allPools) |->
        IF allPools[i].poolType # "VirtualBoosted" THEN allPools[i]
        ELSE allPools[i] @@
             [totalLiquidity |->
                 (CHOOSE hub \in Range(allPools) :
                     hub.id = GroupIdOf(allPools[i])).totalLiquidity]]

\* getPools(from, to) after generateState has set allPools from a subgraph
\* list of n simple pools with the boosted group above or below them.
GetPoolsCall(n, lacking, groupFirst, pair) ==
    /\ call = Uncalled
    /\ LET simple == [i \in 1..n |-> SimplePool(i, lacking)]
           fetched == ByLiquidity(IF groupFirst THEN GroupPools \o simple
                                  ELSE simple \o GroupPools)
           allPools == WithGroupLiquidity(generateState(fetched, 1).allPools)
       IN  call' = [fn |-> "getPools", from |-> pair[1], to |-> pair[2],
                    allPools |-> allPools,
                    res |-> getPoolsOf(allPools, pair[1], pair[2])]
    /\ UNCHANGED <<syncVars, stateBlockNumber, quoteVars, pricing, eventPools>>

\* getBalancerParam.  Asset indices count from 0, as in the source.

ETHER_ADDRESS == "0xEeeE"
NULL_ADDRESS == "0x0000"
MAX_INT == "MAX_INT"
MAX_UINT == "MAX_UINT"

At(xs, index) == xs[index + 1]

\* xs.indexOf(x): exact string match, -1 when absent.
indexOf(xs, x) ==
    IF \E i \in 1..Len(xs) : xs[i] = x
    THEN (CHOOSE i \in 1..Len(xs) :
              xs[i] = x /\ \A j \in 1..(i - 1) : xs[j] # x) - 1
    ELSE -1

\* poolId.includes(VirtualBoostedPool.poolType.toLowerCase())
IsVirtualPoolId(poolId) ==
    GroupIdOf([id |-> poolId, poolType |-> "VirtualBoosted"]) # poolId

\* The id of the listed pool at an address.
PoolIdAt(address) ==
    LET at == { i \in 1..Len(eventPools.allPools) :
                  /\ toLowerCase(eventPools.allPools[i].address)
                        = toLowerCase(address)
                  /\ eventPools.allPools[i].poolType # "VirtualBoosted" }
    IN  eventPools.allPools[CHOOSE i \in at : TRUE].id

\* VirtualBoostedPool.getSwapData: the three hops of a swap through a
\* boosted group, main token to linear pool token, across the hub, and
\* back to a main token, with indices into the hops' own asset list.
getSwapData(tokenIn, tokenOut, poolId, amount, groups) ==
    LET id == GroupIdOf([id |-> poolId, poolType |-> "VirtualBoosted"])
        Main(t) == { i \in 1..Len(groups[id].mainTokens) :
                       toLowerCase(groups[id].mainTokens[i].address)
                           = toLowerCase(t) }
    IN  IF id \notin DOMAIN groups THEN [threw |-> TRUE]
        ELSE IF Main(tokenIn) = {} \/ Main(tokenOut) = {} THEN [threw |-> TRUE]
        ELSE LET linearIn == groups[id].mainTokens[CHOOSE i \in Main(tokenIn) : TRUE]
                                 .linearPoolAddr
                 linearOut == groups[id].mainTokens[CHOOSE i \in Main(tokenOut) : TRUE]
                                  .linearPoolAddr
             IN  [threw |-> FALSE,
                  assets |-> <<tokenIn, linearIn, linearOut, tokenOut>>,
                  swaps |->
                    << [poolId |-> PoolIdAt(linearIn), assetInIndex |-> 0,
                        assetOutIndex |-> 1, amount |-> amount, userData |-> "0x"],
                       [poolId |-> id, assetInIndex |-> 1,
                        assetOutIndex |-> 2, amount |-> "0", userData |-> "0x"],
                       [poolId |-> PoolIdAt(linearOut), assetInIndex |-> 2,
                        assetOutIndex |-> 3, amount |-> "0", userData |-> "0x"] >>]

\* updateSwapAsset: the index returned and currentAssets as it is left.
updateSwapAssetKeepsIndex(tokenIndex, swapAssets, currentAssets) ==
    LET token == At(swapAssets, tokenIndex)
    IN  IF indexOf(currentAssets, token) = -1
        THEN [index |-> tokenIndex, currentAssets |-> Append(currentAssets, token)]
        ELSE [index |-> tokenIndex, currentAssets |-> currentAssets]

updateSwapAsset(tokenIndex, swapAssets, currentAssets) ==
    LET token == At(swapAssets, tokenIndex)
        currentIndex == indexOf(currentAssets, token)
    IN  IF currentIndex = -1
        THEN [index |-> Len(currentAssets),
              currentAssets |-> Append(currentAssets, token)]
        ELSE [index |-> currentIndex, currentAssets |-> currentAssets]

\* updateSwapAssets from the k-th swap on.  named holds the tokens the
\* swap's indices named in swapData.assets before they were replaced.
RECURSIVE updateSwapAssetsFrom(_, _, _)
updateSwapAssetsFrom(swapData, k, currentAssets) ==
    IF k > Len(swapData.swaps)
    THEN [swaps |-> <<>>, currentAssets |-> currentAssets]
    ELSE LET swap == swapData.swaps[k]
             in == updateSwapAsset(swap.assetInIndex, swapData.assets,
                                   currentAssets)
             out == updateSwapAsset(swap.assetOutIndex, swapData.assets,
                                    in.currentAssets)
             rest == updateSwapAssetsFrom(swapData, k + 1, out.currentAssets)
         IN  [swaps |->
                <<[poolId |-> swap.poolId, assetInIndex |-> in.index,
                   assetOutIndex |-> out.index, amount |-> swap.amount,
                   userData |-> swap.userData, virtual |-> TRUE,
                   named |-> <<At(swapData.assets, swap.assetInIndex),
                               At(swapData.assets, swap.assetOutIndex)>>]>>
                    \o rest.swaps,
              currentAssets |-> rest.currentAssets]

updateSwapAssets(swapData, currentAssets) ==
    updateSwapAssetsFrom(swapData, 1, currentAssets)

\* data.swaps.forEach(...) from the k-th swap on.  assetsAfter lists the
\* asset list after each swap of data.
RECURSIVE SwapsFrom(_, _, _, _, _)
SwapsFrom(srcToken, destToken, dataSwaps, k, assets) ==
    IF k > Len(dataSwaps)
    THEN [threw |-> FALSE, swaps |-> <<>>, assets |-> assets,
          assetsAfter |-> <<>>]
    ELSE LET swap == dataSwaps[k]
         IN  IF IsVirtualPoolId(swap.poolId)
             THEN LET swapData == getSwapData(srcToken, destToken, swap.poolId,
                                      swap.amount,
                                      eventPools.virtualBoostedPools)
                  IN  IF swapData.threw
                      THEN [threw |-> TRUE, swaps |-> <<>>, assets |-> assets,
                            assetsAfter |-> <<>>]
                      ELSE LET updatedSwaps == updateSwapAssets(swapData, assets)
                               rest == SwapsFrom(srcToken, destToken, dataSwaps,
                                           k + 1, updatedSwaps.currentAssets)
                           IN  [rest EXCEPT
                                  !.swaps = updatedSwaps.swaps \o @,
                                  !.assetsAfter =
                                      <<updatedSwaps.currentAssets>> \o @]
             ELSE LET rest == SwapsFrom(srcToken, destToken, dataSwaps, k + 1,
                                        assets)
                  IN  [rest EXCEPT
                         !.swaps =
                            <<[poolId |-> swap.poolId, assetInIndex |-> 0,
                               assetOutIndex |-> 1, amount |-> swap.amount,
                               userData |-> "0x", virtual |-> FALSE,
                               named |-> <<srcToken, destToken>>]>> \o @,
                         !.assetsAfter = <<assets>> \o @]

\* assets.map(t => t.toLowerCase() === ETHER_ADDRESS.toLowerCase()
\*                     ? NULL_ADDRESS : t)
EtherAsNull(t) ==
    IF toLowerCase(t) = toLowerCase(ETHER_ADDRESS) THEN NULL_ADDRESS ELSE t

getBalancerParam(srcToken, destToken, data, side) ==
    LET done == SwapsFrom(srcToken, destToken, data.swaps, 1,
                          <<srcToken, destToken>>)
        assets == [i \in 1..Len(done.assets) |-> EtherAsNull(done.assets[i])]
    IN  IF done.threw THEN [threw |-> TRUE]
        ELSE [threw |-> FALSE,
              kind |-> IF side = "SELL" THEN "SwapExactIn" ELSE "SwapExactOut",
              swaps |-> done.swaps,
              assets |-> assets,
              limits |-> [i \in 1..Len(assets) |-> MAX_INT],
              deadline |-> MAX_UINT,
              assetsAfter |-> done.assetsAfter]

\* The tokens and the swaps getBalancerParam is called with.
ParamTokens == {"X", "Y", "A", ETHER_ADDRESS, "0xeeee"}

ParamPoolIds == {"p1-0001", "p2-0002", "p5-0005virtualboosted"}

RECURSIVE SwapLists(_)
SwapLists(n) ==
    IF n = 0 THEN {<<>>}
    ELSE SwapLists(n - 1) \cup
         { Append(l, [poolId |-> id, amount |-> "1"]) :
             l \in { m \in SwapLists(n - 1) : Len(m) = n - 1 },
             id \in ParamPoolIds }

BalancerParamCall(srcToken, destToken, swaps, side) ==
    /\ call = Uncalled
    /\ toLowerCase(srcToken) # toLowerCase(destToken)
    /\ call' = [fn |-> "getBalancerParam", srcToken |-> srcToken,
                destToken |-> destToken, swaps |-> swaps, side |-> side,
                res |-> getBalancerParam(srcToken, destToken,
                                         [swaps |-> swaps], side)]
    /\ UNCHANGED <<syncVars, stateBlockNumber, quoteVars, pricing, eventPools>>

InitCalls == InitSync

NextCalls ==
    \/ \E decimals \in {0, 1}, amounts \in AmountVectors, pool \in PricedPools,
          balance \in PoolBalances :
            PricesPoolCall(decimals, amounts, pool, balance)
    \/ \E pair \in TokenPairs, limitPools \in AllowLists :
            AllowedPoolsCall(pair, limitPools)
    \/ \E pools \in FetchPoolLists, b \in Blocks, failing \in SUBSET (1..3) :
            OnChainStateCall(pools, b, failing)
    \/ \E bad \in BadPools, k \in 0..3, amounts \in AmountVectors, b \in Blocks :
            PoolPricesCall(bad, k, amounts, b)
    \/ \E listed \in SUBSET (1..Len(SubgraphCatalogue)), b \in Blocks :
            GenerateStateCall(listed, b)
    \/ \E n \in 1..Len(SimpleAddresses), lacking \in {{}, {1}, {2, 3}},
          groupFirst \in BOOLEAN, pair \in TokenPairs :
            GetPoolsCall(n, lacking, groupFirst, pair)
    \/ \E srcToken \in ParamTokens, destToken \in ParamTokens,
          swaps \in SwapLists(MaxSwaps), side \in {"SELL", "BUY"} :
            BalancerParamCall(srcToken, destToken, swaps, side)

SpecCalls == InitCalls /\ [][NextCalls]_vars

----------------------------------------------------------------------------

\* The last call was of getPricesPool and it returned prices.
GotPrices ==
    /\ call.fn = "getPricesPool"
    /\ ~call.res.threw
    /\ ~call.res.null

(* C12: every result of getPricesPool has a prices array as long as the    *)
(* requested amount vector whose first element is 0, and a unit price that *)
(* is the strategy's output for the one-token probe, 10^decimals of the    *)
(* token sold, whatever the caller put in amounts[0].                      *)
C12_PricesShapeAndUnitProbe ==
    GotPrices =>
        /\ Len(call.res.prices) = Len(call.amounts)
        /\ call.res.prices[1] = 0
        /\ call.res.unit =
              onSell(<<getBigIntPow(call.from.decimals)>>, call.poolPairData)[1]

\* Prices came back for a vector whose first amount is neither 0 nor the
\* unit volume and whose own price would differ from the unit price.
C12_Witness ==
    /\ GotPrices
    /\ Len(call.amounts) = 3
    /\ call.amounts[1] = MaxAmount
    /\ call.unitVolume = 10
    /\ call.res.unit # 0
    /\ call.res.unit # onSell(<<call.amounts[1]>>, call.poolPairData)[1]

(* C13: when an allow-list is given, a simple pool is among the pools      *)
(* quoted only if its identifier {system}_{poolAddress} is in the list,    *)
(* and a VirtualBoosted pool only if its own identifier, its               *)
(* {system}_{poolAddress}virtualboosted identifier and the identifier of   *)
(* each of its linear pools are all in the list; the pools quoted are      *)
(* drawn from the candidates only.                                         *)
C13_AllowListGatesPools ==
    (call.fn = "allowedPools" /\ call.limitPools.given) =>
        \A pl \in Range(call.allowedPools) :
            LET ids == call.limitPools.ids
            IN  /\ pl \in Range(call.poolsWithTokens)
                /\ Identifier(pl.address) \in ids
                /\ pl.poolType = "VirtualBoosted" =>
                      /\ (Identifier(pl.address) \o "virtualboosted") \in ids
                      /\ \A t \in Range(pl.tokens) :
                            Identifier(t.linearPoolAddr) \in ids

\* The virtual pool is a candidate, the list has its two identifiers and
\* one of its two linear pools, and the virtual pool is dropped.
C13_Witness ==
    /\ call.fn = "allowedPools"
    /\ call.limitPools.given
    /\ \E pl \in Range(call.poolsWithTokens) : pl.poolType = "VirtualBoosted"
    /\ {Identifier("p5"), Identifier("p5") \o "virtualboosted", Identifier("l1")}
          \subseteq call.limitPools.ids
    /\ Identifier("l2") \notin call.limitPools.ids
    /\ call.allowedPools = <<>>

\* The last call was of getOnChainState.
Fetched == call.fn = "getOnChainState"

(* C14: one fetch reads a single height and is all-or-nothing: every       *)
(* read-call batch of getOnChainState(pools, blockNumber) is executed      *)
(* against the requested blockNumber, and when any batch fails the whole   *)
(* fetch fails and returns no pool state map, not even for the pools       *)
(* whose batches succeeded.                                                *)
C14_FetchOneHeightAllOrNothing ==
    Fetched =>
        /\ \A k \in 1..Len(call.res.batches) :
              call.res.batches[k].blockNumber = call.blockNumber
        /\ (\E k \in 1..Len(call.res.batches) : call.res.batches[k].rejected)
              => /\ call.res.rejected
                 /\ DOMAIN call.res.onChainStateMap = {}
        /\ ~call.res.rejected =>
              \A a \in DOMAIN call.res.onChainStateMap :
                  \A k \in 1..Len(call.res.onChainStateMap[a].reads) :
                      call.res.onChainStateMap[a].reads[k].block
                          = call.blockNumber

\* The first batch, which holds all the calls of the first pool, succeeded
\* and a later batch failed.
C14_Witness ==
    /\ Fetched
    /\ Len(call.res.batches) >= 2
    /\ ~call.res.batches[1].rejected
    /\ call.res.batches[2].rejected
    /\ isSupportedPool(call.pools[1].poolType)
    /\ call.pools[1].plan <= MultiCallChunkSize
    /\ call.res.rejected

\* The number of calls planned by the supported pools before the n-th.
RECURSIVE PlannedBefore(_, _)
PlannedBefore(pools, n) ==
    IF n <= 1 THEN 0
    ELSE PlannedBefore(pools, n - 1)
            + (IF isSupportedPool(pools[n - 1].poolType)
               THEN pools[n - 1].plan ELSE 0)

(* C15: plan/decode ordering parity in getOnChainState: the results are    *)
(* reassembled in the order the calls were concatenated, across the batch  *)
(* boundaries; a pool of unsupported category contributes no call and      *)
(* receives no decode; each supported pool is decoded from a cursor equal  *)
(* to the number of calls planned by the supported pools before it, so     *)
(* that, each strategy consuming as many results as it planned, the final  *)
(* cursor is the number of results and every pool reads its own slots.     *)
C15_PlanDecodeParity ==
    (Fetched /\ ~call.res.rejected) =>
        LET res == call.res
        IN  /\ Len(res.returnData) = Len(res.multiCallData)
            /\ \A k \in 1..Len(res.returnData) :
                  res.returnData[k].call = res.multiCallData[k]
            /\ \A n \in 1..Len(call.pools) :
                  LET pool == call.pools[n]
                  IN  IF isSupportedPool(pool.poolType)
                      THEN /\ pool.address \in DOMAIN res.onChainStateMap
                           /\ res.cursors[pool.address]
                                 = PlannedBefore(call.pools, n)
                           /\ \A k \in 1..pool.plan :
                                 res.onChainStateMap[pool.address].reads[k].call
                                     = [target |-> pool.address, slot |-> k]
                      ELSE /\ pool.address \notin DOMAIN res.onChainStateMap
                           /\ \A k \in 1..Len(res.multiCallData) :
                                 res.multiCallData[k].target # pool.address
            /\ res.i = Len(res.returnData)

\* An unsupported pool comes first, and the calls of the last pool, decoded
\* from cursor 249, lie on both sides of the boundary between two batches.
C15_Witness ==
    /\ Fetched
    /\ ~call.res.rejected
    /\ Len(call.pools) = 3
    /\ ~isSupportedPool(call.pools[1].poolType)
    /\ isSupportedPool(call.pools[2].poolType)
    /\ isSupportedPool(call.pools[3].poolType)
    /\ Len(call.res.batches) = 2
    /\ call.res.cursors[call.pools[3].address] = 249
    /\ call.res.i = 749

(* C16: one bad pool never aborts the batch: when the strategy of one      *)
(* candidate throws during pricing, rejects the amounts in checkBalance or *)
(* is of an unsupported category, that pool alone is omitted and the quote *)
(* returns for every other candidate exactly the result it would have      *)
(* returned had the bad pool not been a candidate.                         *)
C16_BadPoolAloneIsOmitted ==
    call.fn = "poolPrices" =>
        /\ \A r \in Range(call.poolPrices) : r.data.poolId # call.bad.id
        /\ call.poolPrices = call.without

\* The pool whose strategy throws is priced second of four candidates and
\* two of the others are in the results.
C16_Witness ==
    /\ call.fn = "poolPrices"
    /\ call.bad.address = "p6"
    /\ call.k = 1
    /\ Len(call.poolPrices) >= 2
    /\ Len(call.without) >= 2

\* The quotes that ended in the outer catch because their fetch failed.
FetchFailed ==
    { id \in DOMAIN quotes :
        quotes[id].pc = "done" /\ quotes[id].fetchRejected }

(* C17: a failed on-chain fetch during a quote causes no partial state     *)
(* mutation: when the fetch for the missing pools of a quote fails, and no *)
(* other quote ran meanwhile, the non-event cache (its blockNumber and its *)
(* pool states) is exactly what it was when the quote started (no other    *)
(* quote having run, that is the cache the quote found at its first        *)
(* access to it).                                                          *)
C17_FailedFetchLeavesCache ==
    \A id \in FetchFailed :
        (\A other \in DOMAIN quotes \ {id} : quotes[other].pc = "idle")
            => Cache = quotes[id].cacheAtStart

(* C18: a whole-batch failure inside a quote surfaces as a failure of the  *)
(* whole quote: when the fetch for its missing pools fails the quote       *)
(* returns null, with no price for any candidate, the pools whose state    *)
(* was available from the event snapshot or the cache included; it never   *)
(* returns a partial result list.                                          *)
C18_FailedFetchFailsWholeQuote ==
    \A id \in FetchFailed :
        /\ quotes[id].returned = "null"
        /\ Len(quotes[id].poolPrices) = 0

\* The fetch failed for a quote that had the state of a candidate in the
\* event snapshot and could have priced it.
C18_Witness ==
    \E id \in FetchFailed :
        LET q == quotes[id]
        IN  /\ \E i \in 1..Len(q.allowedPools) :
                  q.allowedPools[i].address \in DOMAIN q.eventPoolStates
            /\ Len(PricePools(q, <<>>)) > 0

\* The addresses of the pools of a list whose type is one of `types`.
AddressesOfTypes(pools, types) ==
    { toLowerCase(pools[i].address) :
        i \in { j \in 1..Len(pools) : pools[j].poolType \in types } }

(* C19: the first snapshot built by generateState(blockNumber) is labelled *)
(* with exactly the requested blockNumber and holds a state for the        *)
(* event-eligible pools only (category Stable, Weighted,                   *)
(* LiquidityBootstrapping or Investment, and not on the removed-address    *)
(* list), each fetched at that height; a pool of any other category        *)
(* (MetaStable, linear, StablePhantom, VirtualBoosted) is never in it.     *)
C19_FirstSnapshotEventEligibleOnly ==
    call.fn = "generateState" =>
        LET res == call.res
            eligible ==
                AddressesOfTypes(res.allPools,
                    {"Stable", "Weighted", "LiquidityBootstrapping", "Investment"})
                  \ eventRemovedPools
            others ==
                AddressesOfTypes(res.allPools,
                    {"MetaStable", "AaveLinear", "ERC4626Linear",
                     "StablePhantom", "VirtualBoosted", "Element"})
        IN  /\ res.blockNumber = call.blockNumber
            /\ DOMAIN res.state = eligible
            /\ DOMAIN res.state \cap others = {}
            /\ \A a \in DOMAIN res.state :
                  res.state[a] = OnChainState(a, call.blockNumber)

\* The subgraph listed pools of every category, the boosted group among
\* them, and the snapshot of block 2 holds the four eligible ones.
C19_Witness ==
    /\ call.fn = "generateState"
    /\ call.blockNumber = 2
    /\ Len(call.fetched) = Len(SubgraphCatalogue)
    /\ \E i \in 1..Len(call.res.allPools) :
          call.res.allPools[i].poolType = "VirtualBoosted"
    /\ DOMAIN call.res.state = {"p1", "p2", "p8", "p9"}

(* C20: candidate resolution returns at most 10 pool descriptors, each     *)
(* holding both tokenIn and tokenOut (case-insensitively), and they are    *)
(* the top ones by liquidity: no descriptor holding both tokens that was   *)
(* left out has a higher liquidity than one that was selected, also when   *)
(* virtual pools are part of the pool list.                                *)
C20_CandidatesTopByLiquidity ==
    call.fn = "getPools" =>
        /\ Len(call.res) <= 10
        /\ \A r \in Range(call.res) :
              /\ r \in Range(call.allPools)
              /\ HasTokenAddress(r, call.from)
              /\ HasTokenAddress(r, call.to)
        /\ \A d \in Range(call.allPools) \ Range(call.res) :
              (HasTokenAddress(d, call.from) /\ HasTokenAddress(d, call.to))
                  => \A r \in Range(call.res) :
                        d.totalLiquidity <= r.totalLiquidity

(* C21: the identifier carried by each quote result is one of the          *)
(* identifiers getPoolIdentifiers returns for the same token pair, of the  *)
(* form {system}_{poolAddress} for a simple pool, so that an allow-list    *)
(* made of the identifiers taken from the results gets the same pools      *)
(* quoted again.                                                           *)
C21_ResultIdentifierIsPoolIdentifier ==
    \A id \in Priced : \A r \in Results(id) :
        LET q == quotes[id]
        IN  /\ r.poolIdentifier
                  \in Range(getPoolIdentifiers(q.from, q.to, q.side))
            /\ r.poolIdentifier = Identifier(ResultAddress(r))
            /\ \E pl \in Range(AllowedPools(getPools(q.from, q.to),
                                  [given |-> TRUE, ids |-> {r.poolIdentifier}])) :
                  toLowerCase(pl.address) = ResultAddress(r)

----------------------------------------------------------------------------
(* The Disabled-Pool Set and its refresh timer: initializePricing,         *)
(* the setInterval callback, releaseResources.  initializePricing suspends *)
(* at `await this.fetchEventDisabledPools()` and at `await                 *)
(* this.setupEventPools(blockNumber)`.                                     *)

\* How a call of fetchEventDisabledPools ends: with a list, from the cache
\* or from the subgraph, or with an error (the provider fails, or the
\* response has no gradualWeightUpdates).
FetchOutcomes ==
    { [ok |-> TRUE, pools |-> pools] : pools \in DisabledChoices }
        \cup { [ok |-> FALSE, pools |-> {}] }

\* this.eventDisabledPools after fetchEventDisabledPools ended that way.
DisabledPoolsClearedOnError(current, outcome) ==
    IF outcome.ok THEN outcome.pools ELSE {}

DisabledPoolsAfter(current, outcome) ==
    IF outcome.ok THEN outcome.pools ELSE current

\* initializePricing is called: it goes on to fetch the disabled pools when
\* no timer is stored, straight to setupEventPools otherwise.
InitializePricing(i) ==
    /\ pricing.pc[i] = "idle"
    /\ pricing' = [pricing EXCEPT
          !.pc[i] = IF pricing.eventDisabledPoolsTimer = Undefined
                    THEN "fetchEventDisabledPools" ELSE "setupEventPools",
          !.afterRelease[i] = pricing.released,
          !.last = "initializePricing"]
    /\ UNCHANGED <<syncVars, stateBlockNumber, quoteVars, call, eventPools>>

\* The first fetch of a call ends; on success the timer is created and
\* stored, on failure the error goes to the caller of initializePricing.
InitialFetchEnds(i, outcome) ==
    /\ pricing.pc[i] = "fetchEventDisabledPools"
    /\ eventDisabledPools' = DisabledPoolsAfter(eventDisabledPools, outcome)
    /\ pricing' =
          IF outcome.ok
          THEN [pricing EXCEPT !.pc[i] = "setupEventPools",
                               !.eventDisabledPoolsTimer = i,
                               !.timers = @ \cup {i},
                               !.last = "initialFetched"]
          ELSE [pricing EXCEPT !.pc[i] = "threw",
                               !.raised = @ \cup {i},
                               !.last = "initialFailed"]
    /\ UNCHANGED <<syncVars, stateBlockNumber, nonEventPoolStateCache, quotes,
                   nQuotes, call, eventPools>>

\* setupEventPools resolves and initializePricing returns.
SetupEventPools(i) ==
    /\ pricing.pc[i] = "setupEventPools"
    /\ pricing' = [pricing EXCEPT !.pc[i] = "returned",
                                  !.last = "setupEventPools"]
    /\ UNCHANGED <<syncVars, stateBlockNumber, quoteVars, call, eventPools>>

\* The callback of a running timer: the fetch inside its try block ends;
\* the catch logs a failure.
PeriodicRefresh(t, outcome) ==
    /\ t \in pricing.timers
    /\ eventDisabledPools' = DisabledPoolsAfter(eventDisabledPools, outcome)
    /\ pricing' = [pricing EXCEPT
          !.last = IF outcome.ok THEN "periodicFetched" ELSE "periodicFailed"]
    /\ UNCHANGED <<syncVars, stateBlockNumber, nonEventPoolStateCache, quotes,
                   nQuotes, call, eventPools>>

\* releaseResources()
ReleaseResources ==
    /\ pricing' = [pricing EXCEPT
          !.timers = IF pricing.eventDisabledPoolsTimer # Undefined
                     THEN @ \ {pricing.eventDisabledPoolsTimer} ELSE @,
          !.eventDisabledPoolsTimer = Undefined,
          !.released = TRUE,
          !.afterRelease = [i \in InitIds |-> FALSE],
          !.last = "releaseResources"]
    /\ UNCHANGED <<syncVars, stateBlockNumber, quoteVars, call, eventPools>>

InitPricing == InitSync

NextPricing ==
    \/ \E i \in InitIds : InitializePricing(i)
    \/ \E i \in InitIds, outcome \in FetchOutcomes : InitialFetchEnds(i, outcome)
    \/ \E i \in InitIds : SetupEventPools(i)
    \/ \E t \in InitIds, outcome \in FetchOutcomes : PeriodicRefresh(t, outcome)
    \/ ReleaseResources

SpecPricing == InitPricing /\ [][NextPricing]_vars

----------------------------------------------------------------------------

(* C22: the Disabled-Pool Set is only ever replaced as a whole by a        *)
(* successful refresh: a refresh that fails, the initial one or a periodic *)
(* one, leaves the previous set in force unchanged, and a failed periodic  *)
(* refresh stops no timer and raises no error to any caller.               *)
C22_DisabledSetReplacedOnlyOnSuccess ==
    [][/\ eventDisabledPools' # eventDisabledPools =>
              pricing'.last \in {"initialFetched", "periodicFetched"}
       /\ pricing'.last \in {"initialFailed", "periodicFailed"} =>
              eventDisabledPools' = eventDisabledPools
       /\ pricing'.last = "periodicFailed" =>
              /\ pricing'.timers = pricing.timers
              /\ pricing'.eventDisabledPoolsTimer
                    = pricing.eventDisabledPoolsTimer
              /\ pricing'.raised = pricing.raised]_vars

\* A periodic refresh has just failed while p2 was disabled; p2 is still
\* disabled and the timer is still running.
C22_Witness ==
    /\ pricing.last = "periodicFailed"
    /\ eventDisabledPools = {"p2"}
    /\ pricing.timers # {}

(* C23: at most one periodic refresh timer is active at any time and none  *)
(* survives shutdown: under any interleaving of initializePricing calls    *)
(* and releaseResources there is never more than one active timer, and     *)
(* once releaseResources has run and every initializePricing call in       *)
(* flight has completed no timer is active, unless initializePricing was   *)
(* started after the release.                                              *)
C23_OneTimerNoneAfterRelease ==
    /\ Cardinality(pricing.timers) <= 1
    /\ (/\ pricing.released
        /\ \A i \in InitIds :
              /\ pricing.pc[i] \in {"idle", "returned", "threw"}
              /\ ~pricing.afterRelease[i])
          => pricing.timers = {}

(* C24: a quote whose on-chain fetch succeeds never drops an allowed       *)
(* candidate for lack of state: every allowed candidate of a supported     *)
(* pool type is found in eventPoolStates or nonEventPoolStates when the    *)
(* pools are priced, also when quotes at other block numbers rewrote the   *)
(* non-event cache while this quote waited for its fetch.                  *)
C24_FetchedQuoteFindsEveryState ==
    \A id \in Priced :
        quotes[id].fetched =>
            \A i \in 1..Len(quotes[id].allowedPools) :
                isSupportedPool(quotes[id].allowedPools[i].poolType) =>
                    toLowerCase(quotes[id].allowedPools[i].address)
                        \notin quotes[id].unableToFind

\* The addresses of the allowed pools of a quote that getPricesPool was
\* called for.
HandedToStrategy(q) ==
    { toLowerCase(q.allowedPools[i].address) : i \in 1..Len(q.allowedPools) }
        \ q.unableToFind

(* C25: whenever a candidate whose address is in the Disabled-Pool Set the *)
(* quote read is priced in a quote at blockNumber B, the state handed to   *)
(* the strategy for it (its entry of completePoolStates) is the on-chain   *)
(* state at B, fetched by this quote or cached, and not the state the      *)
(* events accumulated for that pool in the snapshot.                       *)
C25_DisabledCandidateStateIsOnChain ==
    \A id \in Priced :
        \A a \in HandedToStrategy(quotes[id]) \cap quotes[id].disabledSeen :
            /\ a \in DOMAIN quotes[id].completePoolStates
            /\ quotes[id].completePoolStates[a]
                  = OnChainState(a, quotes[id].blockNumber)

\* A quote that awaited no fetch handed the strategy the cached on-chain
\* state of the disabled pool p2, while the snapshot it got from getState
\* held a different, event-accumulated state for p2.
C25_Witness ==
    \E id \in Priced :
        /\ ~quotes[id].fetched
        /\ "p2" \in HandedToStrategy(quotes[id]) \cap quotes[id].disabledSeen
        /\ "p2" \in DOMAIN quotes[id].eventPoolStatesRO
        /\ quotes[id].eventPoolStatesRO["p2"]
              # quotes[id].completePoolStates["p2"]

----------------------------------------------------------------------------
(* Quotes across a refresh of the pool list.  generateState suspends at    *)
(* `await this.fetchAllSubgraphPools()`, then writes virtualBoostedPools   *)
(* and allPools in one step.                                               *)

\* What the subgraph lists at a refresh: every pool of subgraphPools, or
\* all of them but the linear pool l2, which leaves no boosted group.
RefreshedListings == { 1..Len(subgraphPools), 1..(Len(subgraphPools) - 1) }

\* The tokens of the quotes: the main tokens of the boosted group.
BoostedTokens == [from |-> [address |-> "X", decimals |-> 0],
                  to |-> [address |-> "Y", decimals |-> 0]]

BoostedLimitPools ==
    { [given |-> FALSE, ids |-> {}],
      [given |-> TRUE,
       ids |-> {Identifier("p5"), Identifier("p5") \o "virtualboosted",
                Identifier("L1"), Identifier("L2")}] }

StartBoostedQuote(id, side, blockNumber, limitPools) ==
    StartQuoteOn(BoostedTokens, MaxQuotes, id, side, blockNumber, limitPools)

\* fetchAllSubgraphPools resolves inside generateState: the two fields are
\* replaced.
GenerateStateSetsPools(listed) ==
    /\ LET fetched == Pick(SubgraphCatalogue, listed, 1)
       IN  eventPools' =
               [allPools |-> generateState(fetched, stateBlockNumber).allPools,
                virtualBoostedPools |-> createPools(fetched).dictionary]
    /\ eventPools' # eventPools
    /\ UNCHANGED <<syncVars, stateBlockNumber, quoteVars, call, pricing>>

NextRefresh ==
    \/ \E id \in QuoteIds, side \in {"SELL", "BUY"}, b \in Blocks,
          lp \in BoostedLimitPools : StartBoostedQuote(id, side, b, lp)
    \/ \E id \in QuoteIds : AfterGetState(id)
    \/ \E id \in QuoteIds : AfterFetch(id)
    \/ \E id \in QuoteIds : FetchFails(id)
    \/ \E pools \in DisabledChoices : RefreshDisabledPools(pools)
    \/ \E log \in BlockLogs : NewBlock(log)
    \/ \E listed \in RefreshedListings : GenerateStateSetsPools(listed)

SpecRefresh == InitQuote /\ [][NextRefresh]_vars

\* Two dictionaries of boosted groups hold the same groups.
SameGroups(g, h) ==
    /\ DOMAIN g = DOMAIN h
    /\ \A id \in DOMAIN g : g[id] = h[id]

(* C26: a quote works from a single pool list: when generateState replaces *)
(* allPools and virtualBoostedPools while a quote is suspended at getState *)
(* or at its fetch, the quote still prices its candidates with the boosted *)
(* groups of the pool list the candidates were selected from.              *)
C26_QuoteUsesOnePoolList ==
    \A id \in Priced :
        SameGroups(quotes[id].pricedWith,
                   quotes[id].selectedFrom.virtualBoostedPools)

\* The last call was of getBalancerParam and it returned its parameters.
GotParam ==
    /\ call.fn = "getBalancerParam"
    /\ ~call.res.threw

\* What the claim says of the swaps, the asset list and the limits, apart
\* from the first two assets.
IndicesResolved(res) ==
    /\ \A k \in 1..Len(res.swaps) :
          LET swap == res.swaps[k]
          IN  /\ ~swap.virtual =>
                    swap.assetInIndex = 0 /\ swap.assetOutIndex = 1
              /\ swap.assetInIndex \in 0..(Len(res.assets) - 1)
              /\ swap.assetOutIndex \in 0..(Len(res.assets) - 1)
              /\ At(res.assets, swap.assetInIndex) = EtherAsNull(swap.named[1])
              /\ At(res.assets, swap.assetOutIndex) = EtherAsNull(swap.named[2])
    /\ \A k \in 1..Len(res.assetsAfter) :
          LET before == IF k = 1 THEN <<call.srcToken, call.destToken>>
                        ELSE res.assetsAfter[k - 1]
              after == res.assetsAfter[k]
          IN  /\ Len(before) <= Len(after)
              /\ SubSeq(after, 1, Len(before)) = before
    /\ \A i, j \in 1..Len(res.assets) : res.assets[i] = res.assets[j] => i = j
    /\ Len(res.limits) = Len(res.assets)

(* C27, as claimed: after getBalancerParam, assets[0] and assets[1] are    *)
(* the source and destination tokens, every simple swap has indices (0,1), *)
(* every hop's indices are in range and name in the global asset list the  *)
(* token their placeholders named in the hop's own list, tokens in the     *)
(* list keep their positions, none is duplicated, and limits has one entry *)
(* per asset.                                                              *)
C27_AssetsStartWithGivenTokens ==
    GotParam =>
        /\ At(call.res.assets, 0) = call.srcToken
        /\ At(call.res.assets, 1) = call.destToken
        /\ IndicesResolved(call.res)

(* C27, amended: the same, with assets[0] and assets[1] being the source   *)
(* and destination tokens after the ether address, in any letter case, is  *)
(* replaced by the null address.                                           *)
C27_IndicesResolveToOwnTokens ==
    GotParam =>
        /\ At(call.res.assets, 0) = EtherAsNull(call.srcToken)
        /\ At(call.res.assets, 1) = EtherAsNull(call.destToken)
        /\ IndicesResolved(call.res)

\* A simple swap and then a swap through the boosted group: the hops were
\* given the indices (0, 2), (2, 3), (3, 1) in a list of four assets.
C27_Witness ==
    /\ GotParam
    /\ Len(call.res.swaps) = 4
    /\ ~call.res.swaps[1].virtual
    /\ <<call.res.swaps[2].assetInIndex, call.res.swaps[2].assetOutIndex>>
          = <<0, 2>>
    /\ <<call.res.swaps[3].assetInIndex, call.res.swaps[3].assetOutIndex>>
          = <<2, 3>>
    /\ <<call.res.swaps[4].assetInIndex, call.res.swaps[4].assetOutIndex>>
          = <<3, 1>>
    /\ Len(call.res.assets) = 4

============================================================================
